---- MODULE Spec2Model ----
(***************************************************************************)
(* The reconciliation engine of lldap-controller: the finalizer-wrapped    *)
(* dispatcher (resources/mod.rs), the ServiceUser and Group reconcilers    *)
(* (resources/service_user.rs, resources/group.rs) and the directory       *)
(* client (lldap.rs), run against an abstract cluster (custom objects,     *)
(* Secrets) and an abstract directory (users, groups, passwords).          *)
(*                                                                         *)
(* One dispatch is one action.  The remote calls a dispatch makes are      *)
(* applied in program order; a fault names the call that fails and how.    *)
(* A call that fails has no effect on the remote side.                     *)
(* In ControllerSpec the controllers' runtime stands between the watches   *)
(* and the dispatcher: a dispatch starts and finishes in separate steps.   *)
(* HandlerSpec, UpdateGroupsSpec and GraphQlSpec call the handlers,        *)
(* update_user_groups and check_graphql_errors on their own.               *)
(* SideBySideSpec and HandlersSideBySideSpec run several ServiceUsers next  *)
(* to each other; AdoptionSpec runs Group objects named after groups the    *)
(* directory already has.                                                  *)
(***************************************************************************)
EXTENDS Integers, Sequences, FiniteSets, TLC

VARIABLES
    service_users,  \* (namespace, name) -> the ServiceUser custom object
    group_objects,  \* name -> the Group custom object
    secrets,        \* (namespace, secret name) -> Secret, for the Secrets that exist
    users,          \* directory: login -> user, for the users that exist
    groups,         \* directory: group id -> display name, for the groups that exist
    nextGid,        \* directory: the id the next created group gets
    clock,          \* cluster: number of Secrets created so far (creation timestamps)
    last,           \* what the most recent step of the system did
    controller      \* the controllers' runtime: requests queued, reconciles in flight

vars == <<service_users, group_objects, secrets, users, groups, nextGid, clock, last, controller>>

-----------------------------------------------------------------------------
(* Bounds of the model *)

MaxClock == 1       \* Secrets created in one behaviour
MaxGid == 4         \* the largest directory group id handed out
MaxSecrets == 2     \* Secrets created in one behaviour next to third parties
MaxSideBySide == 3  \* Secrets created in one behaviour of ServiceUsers side by side

(* Option<T>: None, Some(x) *)
None == << >>
Some(x) == <<x>>
Unwrap(o) == o[1]

(* A byte string that is not valid UTF-8 *)
NonUtf8 == "<ff>"

-----------------------------------------------------------------------------
(* Identities *)

ServiceUserKeys == {<<"apps", "gitea">>}
GroupNames == {"grafana-admins"}

CONTROLLER_NAME == "lldap.huizinga.dev"

(* The login as it would be without the namespace *)
format_username_without_namespace(name, namespace) == name

format_username(name, namespace) == name \o "." \o namespace

secret_name_of(name) == name \o "-lldap-credentials"

SecretKey(key) == <<key[1], secret_name_of(key[2])>>

Login(key) == format_username(key[2], key[1])

(* The password PasswordGenerator returns on its n-th call in the cluster   *)
(* (two calls never return the same), and values only a third party writes. *)
GeneratedPassword(n) == "Pw" \o ToString(n)
ForeignPassword == "hunter2"
ForeignUsername == "someone"

(* The directory's built-in groups (ids 1..3) *)
BuiltinGroups == (1 :> "lldap_admin") @@ (2 :> "lldap_password_manager") @@ (3 :> "lldap_strict_readonly")

(* The spec.additionalGroups values a user writes: a group that a Group    *)
(* object may or may not have created, and the group of the default role.  *)
AdditionalGroupsChoices == {<<"grafana-admins", "lldap_strict_readonly">>}

-----------------------------------------------------------------------------
(* Custom objects *)

NoServiceUser ==
    [exists |-> FALSE, finalizer |-> FALSE, deleting |-> FALSE,
     password_manager |-> FALSE, additional_groups |-> << >>, secret_created |-> None]

NoGroup == [exists |-> FALSE, finalizer |-> FALSE, deleting |-> FALSE]

(* The object as the dispatcher receives it (Arc<ServiceUser>): su is the  *)
(* object as the controller's cache had it when the dispatch began.        *)
ServiceUserObjOf(su, key) ==
    [name |-> Some(key[2]), namespace |-> Some(key[1]), uid |-> Some("uid"),
     password_manager |-> su.password_manager,
     additional_groups |-> su.additional_groups]

ServiceUserObj(key) == ServiceUserObjOf(service_users[key], key)

GroupObj(name) == [name |-> Some(name)]

-----------------------------------------------------------------------------
(* Faults: the call of a dispatch that fails, and how.                     *)
(*   error     a cluster API call returns an error                         *)
(*   transport an HTTP call to the directory fails (timeout, refused)      *)
(*   graphql   the directory answers with a GraphQL error of its own       *)
(*   other_entity  the directory answers that some other entity is not     *)
(*             found                                                       *)
(*   nodata    the directory answers with neither errors nor data          *)
(*   rejected  the directory answers with an HTTP error status             *)
(*   client    a client-side OPAQUE step fails                             *)

NoFault == [at |-> "none", how |-> "none", k |-> 0]

KubeCalls == {"entry", "commit", "patch_status", "add_finalizer", "remove_finalizer"}
EventCalls == {"secret_created", "user_created", "user_deleted", "user_not_found",
               "group_created", "group_deleted"}
GraphQlCalls == {"get_user", "create_user", "delete_user", "get_groups",
                 "create_group", "delete_group"}
MembershipCalls == {"remove_user_from_group", "add_user_to_group"}
MaxCalls == 2       \* the membership call of a dispatch (first, second) a fault may hit

Faults ==
    [at : KubeCalls \cup EventCalls, how : {"error"}, k : {0}]
    \cup [at : {"login", "start"}, how : {"transport"}, k : {0}]
    \cup [at : GraphQlCalls, how : {"transport"}, k : {0}]
    \cup [at : {"get_user", "delete_user"}, how : {"graphql", "other_entity", "nodata"}, k : {0}]
    \cup [at : MembershipCalls, how : {"transport"}, k : 1..MaxCalls]
    \cup [at : {"start_registration", "finish_registration"}, how : {"client"}, k : {0}]
    \cup [at : {"finish"}, how : {"transport", "rejected"}, k : {0}]

-----------------------------------------------------------------------------
(* Small helpers *)

Min(S) == CHOOSE x \in S : \A y \in S : x <= y

RECURSIVE SortedSeq(_)
SortedSeq(S) == IF S = {} THEN << >> ELSE <<Min(S)>> \o SortedSeq(S \ {Min(S)})

Range(s) == {s[i] : i \in 1..Len(s)}

Contains(s, x) == \E i \in 1..Len(s) : s[i] = x

Remove(fn, x) == [y \in DOMAIN fn \ {x} |-> fn[y]]

-----------------------------------------------------------------------------
(* The run of one handler: the remote state as its calls have left it, the *)
(* events published, the requests issued, and how it ended.                *)
(*   res: "run" while running, then "ok", "err", or "panic" (the handler   *)
(*   unwinds: unwrap/expect on None or Err).  A call made after the run    *)
(*   has ended is not made: every call returns the run it is given then.   *)
(*   events, types: the reason and the type_ of each event published.      *)
(*   out, created, secret, user: the locals of the handler.                *)

NoError == [kind |-> "none", message |-> ""]

Action_requeue(secs) == [kind |-> "requeue", secs |-> secs]
Action_await_change == [kind |-> "await_change", secs |-> 0]
NoAction == [kind |-> "none", secs |-> 0]

NoOut == [tag |-> "Ok", error |-> NoError, data |-> None]

Run0 ==
    [res |-> "run", op |-> "none", handler |-> "none", error |-> NoError, wrapped |-> "",
     action |-> NoAction,
     secrets |-> secrets, users |-> users, groups |-> groups,
     nextGid |-> nextGid, clock |-> clock,
     status |-> None, finalizer |-> None,
     events |-> << >>, types |-> << >>, reqs |-> << >>, sites |-> {},
     out |-> NoOut, created |-> FALSE, secret |-> None, user |-> None]

Err(r, kind, message) == [r EXCEPT !.res = "err", !.error = [kind |-> kind, message |-> message]]

Panic(r, message) == [r EXCEPT !.res = "panic", !.error = [kind |-> "panic", message |-> message]]

Ok(r, action) == [r EXCEPT !.res = "ok", !.action = action]

(* The handler's final Ok(Action::..) *)
ReturnOk(r, action) == IF r.res = "run" THEN Ok(r, action) ELSE r

Hits(f, at, k) == f.at = at /\ f.k = k

(* A remote call is issued: it is logged, with the name a fault gives it   *)
Call(r, f, at, k, op, arg) ==
    [r EXCEPT !.reqs = Append(@, [op |-> op, arg |-> arg, name |-> ""]),
              !.sites = @ \cup {<<at, k>>}]

(* The request just logged names a finalizer *)
Naming(r, name) == [r EXCEPT !.reqs[Len(r.reqs)].name = name]

(* A client-side step that a fault may name *)
Step(r, f, at) == [r EXCEPT !.sites = @ \cup {<<at, 0>>}]

(* How a failed call ends the handler: `?` on an Err, the unwind of expect *)
Fail(r, out) ==
    IF out.tag = "Panic" THEN Panic(r, out.error.message)
    ELSE Err(r, out.error.kind, out.error.message)

(* One statement after the other: the run r has left is computed once and *)
(* handed to the statements F that follow.                                 *)
Then(r, F(_)) == CHOOSE out \in {F(x) : x \in {r}} : TRUE

(* The `?` after a call of the directory client *)
Try(r) ==
    IF r.res # "run" THEN r
    ELSE IF r.out.tag = "Ok" THEN r ELSE Fail(r, r.out)

-----------------------------------------------------------------------------
(* lldap.rs: GraphQL responses.  The grave accent of the server's messages *)
(* is written ^ here.                                                      *)

GraphQlResponse(errors, data) == [data |-> data, errors |-> errors]

(* check_graphql_errors as it would be if data, when there are any, were  *)
(* returned whatever errors come with them                                 *)
check_graphql_errors_preferring_data(response) ==
    IF response.data # None THEN [tag |-> "Ok", error |-> NoError, data |-> response.data]
    ELSE IF response.errors # None /\ Len(Unwrap(response.errors)) > 0
    THEN [tag |-> "Err",
          error |-> [kind |-> "GraphQl", message |-> Head(Unwrap(response.errors)).message],
          data |-> None]
    ELSE [tag |-> "Panic",
          error |-> [kind |-> "panic", message |-> "Data should be valid if there are no error"],
          data |-> None]

check_graphql_errors(response) ==
    IF response.errors # None /\ Len(Unwrap(response.errors)) > 0
    THEN [tag |-> "Err",
          error |-> [kind |-> "GraphQl", message |-> Head(Unwrap(response.errors)).message],
          data |-> None]
    ELSE IF response.data = None
         THEN [tag |-> "Panic",
               error |-> [kind |-> "panic", message |-> "Data should be valid if there are no error"],
               data |-> None]
         ELSE [tag |-> "Ok", error |-> NoError, data |-> response.data]

(* run_graphql(...).await? then check_graphql_errors: the answer the       *)
(* directory gives to a call, or the fault put in its place.               *)
GraphQlCall(f, at, k, response) ==
    IF ~Hits(f, at, k) THEN check_graphql_errors(response)
    ELSE IF f.how = "transport"
         THEN [tag |-> "Err", error |-> [kind |-> "Cynic", message |-> "timeout"], data |-> None]
         ELSE IF f.how = "graphql"
              THEN check_graphql_errors(GraphQlResponse(Some(<<[message |-> "Unauthorized"]>>), None))
              ELSE IF f.how = "other_entity"
                   THEN check_graphql_errors(
                            GraphQlResponse(Some(<<[message |-> "Entity not found: ^nobody^"]>>), None))
                   ELSE check_graphql_errors(GraphQlResponse(None, None))

GraphQlError(message) == GraphQlResponse(Some(<<[message |-> message]>>), None)

(* The directory's answers *)
UserRecord(r, login) ==
    [id |-> login,
     groups |-> [i \in 1..Cardinality(r.users[login].groups) |->
                    [id |-> SortedSeq(r.users[login].groups)[i],
                     display_name |-> r.groups[SortedSeq(r.users[login].groups)[i]]]]]

GetUserResponse(r, login) ==
    IF login \in DOMAIN r.users
    THEN GraphQlResponse(None, Some(UserRecord(r, login)))
    ELSE GraphQlError("Entity not found: ^" \o login \o "^")

CreateUserResponse(r, login) ==
    IF login \in DOMAIN r.users
    THEN GraphQlError("UNIQUE constraint failed: users.user_id")
    ELSE GraphQlResponse(None, Some([id |-> login, groups |-> << >>]))

DeleteUserResponse(r, login) ==
    IF login \in DOMAIN r.users
    THEN GraphQlResponse(None, Some("ok"))
    ELSE GraphQlError("Entity not found: ^No such user: '" \o login \o "'^")

GetGroupsResponse(r) ==
    GraphQlResponse(None,
        Some([i \in 1..Cardinality(DOMAIN r.groups) |->
                [id |-> SortedSeq(DOMAIN r.groups)[i],
                 display_name |-> r.groups[SortedSeq(DOMAIN r.groups)[i]]]]))

MembershipResponse(r, username, group) ==
    IF username \in DOMAIN r.users /\ group \in DOMAIN r.groups
    THEN GraphQlResponse(None, Some("ok"))
    ELSE GraphQlError("Entity not found")

-----------------------------------------------------------------------------
(* lldap.rs: LldapConfig::build_client and the LldapClient calls.  Each    *)
(* takes the run so far and returns the run after the call, the call's     *)
(* result in out as check_graphql_errors leaves it.                        *)

(* build_client as it would be if the client of an earlier dispatch were  *)
(* kept and no login made                                                  *)
build_client_keeping_the_session(r, f) == r

build_client(r, f) ==
    IF r.res # "run" THEN r
    ELSE IF Hits(f, "login", 0) THEN Err(Call(r, f, "login", 0, "login", 0), "Reqwest", f.how)
    ELSE Call(r, f, "login", 0, "login", 0)

get_user(r, f, username) ==
    IF r.res # "run" THEN r
    ELSE [Call(r, f, "get_user", 0, "get_user", 0) EXCEPT
             !.out = GraphQlCall(f, "get_user", 0, GetUserResponse(r, username))]

create_user(r, f, username) ==
    IF r.res # "run" THEN r
    ELSE [Call(r, f, "create_user", 0, "create_user", 0) EXCEPT
             !.out = GraphQlCall(f, "create_user", 0, CreateUserResponse(r, username)),
             !.users = IF ~Hits(f, "create_user", 0) /\ username \notin DOMAIN r.users
                       THEN username :> [groups |-> {}, password |-> None] @@ @
                       ELSE @]

delete_user(r, f, username) ==
    IF r.res # "run" THEN r
    ELSE [Call(r, f, "delete_user", 0, "delete_user", 0) EXCEPT
             !.out = GraphQlCall(f, "delete_user", 0, DeleteUserResponse(r, username)),
             !.users = IF ~Hits(f, "delete_user", 0) /\ username \in DOMAIN r.users
                       THEN Remove(@, username)
                       ELSE @]

get_groups(r, f) ==
    IF r.res # "run" THEN r
    ELSE [Call(r, f, "get_groups", 0, "get_groups", 0) EXCEPT
             !.out = GraphQlCall(f, "get_groups", 0, GetGroupsResponse(r))]

add_user_to_group(r, f, k, username, group) ==
    IF r.res # "run" THEN r
    ELSE [Call(r, f, "add_user_to_group", k, "add_user_to_group", group) EXCEPT
             !.out = GraphQlCall(f, "add_user_to_group", k, MembershipResponse(r, username, group)),
             !.users = IF ~Hits(f, "add_user_to_group", k)
                          /\ username \in DOMAIN r.users /\ group \in DOMAIN r.groups
                       THEN [@ EXCEPT ![username].groups = @ \cup {group}]
                       ELSE @]

remove_user_from_group(r, f, k, username, group) ==
    IF r.res # "run" THEN r
    ELSE [Call(r, f, "remove_user_from_group", k, "remove_user_from_group", group) EXCEPT
             !.out = GraphQlCall(f, "remove_user_from_group", k,
                                 MembershipResponse(r, username, group)),
             !.users = IF ~Hits(f, "remove_user_from_group", k)
                          /\ username \in DOMAIN r.users /\ group \in DOMAIN r.groups
                       THEN [@ EXCEPT ![username].groups = @ \ {group}]
                       ELSE @]

(* for &group in remove { self.remove_user_from_group(&user.id, group).await?; } *)
RECURSIVE RemoveLoop(_, _, _, _, _)
RemoveLoop(r, f, username, remove, k) ==
    IF r.res # "run" \/ remove = << >> THEN r
    ELSE Then(Try(remove_user_from_group(r, f, k, username, Head(remove))),
              LAMBDA r1 : RemoveLoop(r1, f, username, Tail(remove), k + 1))

(* for &group in add { self.add_user_to_group(&user.id, group).await?; } *)
RECURSIVE AddLoop(_, _, _, _, _)
AddLoop(r, f, username, add, k) ==
    IF r.res # "run" \/ add = << >> THEN r
    ELSE Then(Try(add_user_to_group(r, f, k, username, Head(add))),
              LAMBDA r1 : AddLoop(r1, f, username, Tail(add), k + 1))

(* The id of the first group with that display name, if any *)
FindGroup(all_groups, name) ==
    IF SelectSeq(all_groups, LAMBDA g : g.display_name = name) = << >> THEN << >>
    ELSE <<Head(SelectSeq(all_groups, LAMBDA g : g.display_name = name)).id>>

(* needed_groups.iter().filter_map(..).collect() *)
RECURSIVE NeededIds(_, _)
NeededIds(needed_groups, all_groups) ==
    IF needed_groups = << >> THEN << >>
    ELSE FindGroup(all_groups, Head(needed_groups)) \o NeededIds(Tail(needed_groups), all_groups)

CurrentIds(user) == [i \in 1..Len(user.groups) |-> user.groups[i].id]

(* remove as it would be if no membership were ever taken away *)
ToRemove_nothing(current_groups, needed) == << >>

ToRemove(current_groups, needed) == SelectSeq(current_groups, LAMBDA g : ~Contains(needed, g))

(* add as it would be without the filter on the current membership *)
ToAdd_all_needed(current_groups, needed) == needed

ToAdd(current_groups, needed) == SelectSeq(needed, LAMBDA g : ~Contains(current_groups, g))

(* The two loops, all_groups being what get_groups returned *)
SyncGroups(r, f, user, needed_groups) ==
    IF r.res # "run" THEN r
    ELSE Then(RemoveLoop(r, f, user.id,
                         ToRemove(CurrentIds(user),
                                  NeededIds(needed_groups, Unwrap(r.out.data))), 1),
              LAMBDA r1 :
                  AddLoop(r1, f, user.id,
                          ToAdd(CurrentIds(user),
                                NeededIds(needed_groups, Unwrap(r.out.data))), 1))

update_user_groups(r, f, user, needed_groups) ==
    IF r.res # "run" THEN r
    ELSE Then(Try(get_groups(r, f)), LAMBDA r1 : SyncGroups(r1, f, user, needed_groups))

(* The OPAQUE registration: ClientRegistration::start, the start request,  *)
(* ClientRegistration::finish, the finish request.  The directory answers  *)
(* the start request with the server data of the registration it has       *)
(* begun for that user; the finish request names the registration by them. *)
(* The answer to the finish request is bound to _response and never        *)
(* inspected.                                                              *)
ServerData(username) == "registration of " \o username

StartRegistration(r, f) ==
    IF r.res # "run" THEN r
    ELSE IF Hits(f, "start_registration", 0)
         THEN Err(Step(r, f, "start_registration"), "Authentication", "start_registration")
         ELSE Step(r, f, "start_registration")

RegisterStart(r, f, username) ==
    IF r.res # "run" THEN r
    ELSE IF Hits(f, "start", 0)
         THEN Err(Naming(Call(r, f, "start", 0, "register_start", 0), username), "Reqwest", f.how)
         ELSE [Naming(Call(r, f, "start", 0, "register_start", 0), username) EXCEPT
                  !.out = [tag |-> "Ok", error |-> NoError,
                           data |-> Some([server_data |-> ServerData(username),
                                          registration_response |-> "registration response"])]]

FinishRegistration(r, f) ==
    IF r.res # "run" THEN r
    ELSE IF Hits(f, "finish_registration", 0)
         THEN Err(Step(r, f, "finish_registration"), "Authentication", "finish_registration")
         ELSE Step(r, f, "finish_registration")

(* The finish request as it would be if it carried the server data of     *)
(* some other registration                                                 *)
RegisterFinish_with_other_server_data(r, f, password) ==
    IF r.res # "run" THEN r
    ELSE IF Hits(f, "finish", 0) /\ f.how = "transport"
         THEN Err(Naming(Call(r, f, "finish", 0, "register_finish", 0), ServerData("admin")),
                  "Reqwest", f.how)
         ELSE Naming(Call(r, f, "finish", 0, "register_finish", 0), ServerData("admin"))

(* server_data: response.server_data; the directory sets the password of   *)
(* the user whose registration the server data name, unless it rejects     *)
(* the request.                                                            *)
RegisterFinish(r, f, password) ==
    IF r.res # "run" THEN r
    ELSE IF Hits(f, "finish", 0) /\ f.how = "transport"
         THEN Err(Naming(Call(r, f, "finish", 0, "register_finish", 0),
                         Unwrap(r.out.data).server_data),
                  "Reqwest", f.how)
         ELSE IF Hits(f, "finish", 0) /\ f.how = "rejected"
              THEN Naming(Call(r, f, "finish", 0, "register_finish", 0),
                          Unwrap(r.out.data).server_data)
              ELSE [Naming(Call(r, f, "finish", 0, "register_finish", 0),
                           Unwrap(r.out.data).server_data) EXCEPT
                       !.users = [u \in DOMAIN r.users |->
                                     IF ServerData(u) = Unwrap(r.out.data).server_data
                                     THEN [r.users[u] EXCEPT !.password = Some(password)]
                                     ELSE r.users[u]]]

update_password(r, f, username, password) ==
    Then(StartRegistration(r, f), LAMBDA r1 :
    Then(RegisterStart(r1, f, username), LAMBDA r2 :
    Then(FinishRegistration(r2, f), LAMBDA r3 :
    RegisterFinish(r3, f, password))))

-----------------------------------------------------------------------------
(* context.rs: ControllerEvents for Recorder.  publish returns the cluster *)
(* client's result.                                                        *)

publish(r, f, method, type_, reason) ==
    IF r.res # "run" THEN r
    ELSE IF Hits(f, method, 0) THEN Err(Call(r, f, method, 0, method, 0), "Kube", method)
    ELSE [Call(r, f, method, 0, method, 0) EXCEPT
             !.events = Append(@, reason), !.types = Append(@, type_)]

secret_created(r, f) == publish(r, f, "secret_created", "Normal", "SecretCreated")
user_created(r, f) == publish(r, f, "user_created", "Normal", "UserCreated")
group_created(r, f) == publish(r, f, "group_created", "Normal", "GroupCreated")
user_deleted(r, f) == publish(r, f, "user_deleted", "Normal", "UserDeleted")
group_deleted(r, f) == publish(r, f, "group_deleted", "Normal", "GroupDeleted")
user_not_found(r, f) == publish(r, f, "user_not_found", "Warning", "UserNotFound")

-----------------------------------------------------------------------------
(* resources/service_user.rs *)

(* Resource::controller_owner_ref: None unless name and uid are set *)
controller_owner_ref(obj) ==
    IF obj.name = None \/ obj.uid = None THEN None
    ELSE Some([kind |-> "ServiceUser", name |-> Unwrap(obj.name),
               uid |-> Unwrap(obj.uid), controller |-> TRUE])

(* password: what PasswordGenerator::generate_one returned *)
new_secret(username, oref, password) ==
    [owner_references |-> Some(<<oref>>),
     string_data |-> Some([k \in {"username", "password"} |->
                              IF k = "username" THEN username ELSE password]),
     data |-> None,
     creation_timestamp |-> None]

(* Api::create: the apiserver stores string_data as data and stamps the    *)
(* object; the stored object is what commit leaves in the entry.           *)
Stored(secret, now) ==
    [owner_references |-> secret.owner_references,
     data |-> IF secret.string_data = None THEN secret.data
              ELSE IF secret.data = None THEN secret.string_data
              ELSE Some(Unwrap(secret.string_data) @@ Unwrap(secret.data)),
     creation_timestamp |-> Some(now)]

(* entry as it would be if a Secret without a password counted as absent  *)
Entry_vacant_without_password(r, f, key) ==
    IF r.res # "run" THEN r
    ELSE IF Hits(f, "entry", 0) THEN Err(Call(r, f, "entry", 0, "entry", 0), "Kube", "entry")
    ELSE [Call(r, f, "entry", 0, "entry", 0) EXCEPT
             !.created = \/ key \notin DOMAIN r.secrets
                         \/ r.secrets[key].data = None
                         \/ "password" \notin DOMAIN Unwrap(r.secrets[key].data)]

(* secrets.entry(&secret_name).await?: the entry is occupied or vacant;    *)
(* or_insert runs its closure, which sets created, on a vacant one.        *)
Entry(r, f, key) ==
    IF r.res # "run" THEN r
    ELSE IF Hits(f, "entry", 0) THEN Err(Call(r, f, "entry", 0, "entry", 0), "Kube", "entry")
    ELSE [Call(r, f, "entry", 0, "entry", 0) EXCEPT !.created = key \notin DOMAIN r.secrets]

(* commit as it would be if the Secret just built were written over the   *)
(* one found                                                               *)
Commit_writing_the_new_secret(r, f, key, secret) ==
    IF r.res # "run" THEN r
    ELSE IF Hits(f, "commit", 0)
         THEN Err(Call(r, f, "commit", 0,
                       IF r.created THEN "create_secret" ELSE "replace_secret", 0),
                  "Commit", "commit")
         ELSE IF r.created
              THEN [Call(r, f, "commit", 0, "create_secret", 0) EXCEPT
                       !.secrets = key :> Stored(secret, r.clock + 1) @@ @,
                       !.clock = @ + 1,
                       !.secret = Some(Stored(secret, r.clock + 1))]
              ELSE [Call(r, f, "commit", 0, "replace_secret", 0) EXCEPT
                       !.secrets = [@ EXCEPT ![key].data = Stored(secret, 0).data],
                       !.secret = Some([r.secrets[key] EXCEPT !.data = Stored(secret, 0).data])]

(* commit: a vacant entry is created, an occupied one (made dirty by       *)
(* and_modify) replaced by itself.                                         *)
Commit(r, f, key, secret) ==
    IF r.res # "run" THEN r
    ELSE IF Hits(f, "commit", 0)
         THEN Err(Call(r, f, "commit", 0,
                       IF r.created THEN "create_secret" ELSE "replace_secret", 0),
                  "Commit", "commit")
         ELSE IF r.created
              THEN [Call(r, f, "commit", 0, "create_secret", 0) EXCEPT
                       !.secrets = key :> Stored(secret, r.clock + 1) @@ @,
                       !.clock = @ + 1,
                       !.secret = Some(Stored(secret, r.clock + 1))]
              ELSE [Call(r, f, "commit", 0, "replace_secret", 0) EXCEPT
                       !.secret = Some(r.secrets[key])]

GetOrCreateSecret(r, f, key, username, oref, password) ==
    Then(Entry(r, f, key), LAMBDA r1 :
    Commit(r1, f, key, new_secret(username, oref, password)))

(* The event as it would be sent without the test of created *)
SecretCreatedEvent_unconditional(r, f) == secret_created(r, f)

(* if created { ctx.recorder.secret_created(..).await?; } *)
SecretCreatedEvent(r, f) ==
    IF r.res = "run" /\ r.created THEN secret_created(r, f) ELSE r

(* The match on get_user's result: create_user with its event when the     *)
(* directory answers that the entity is not found.                         *)
CreatedUser(r, f) ==
    IF r.res # "run" THEN r
    ELSE user_created([r EXCEPT !.user = r.out.data], f)

(* The match as it would be if every GraphQL error of get_user were taken *)
(* for the user not being there                                            *)
MatchGetUser_on_any_graphql_error(r, f, username) ==
    IF r.res # "run" THEN r
    ELSE IF r.out.tag = "Err" /\ r.out.error.kind = "GraphQl"
         THEN Then(Try(create_user(r, f, username)), LAMBDA r1 : CreatedUser(r1, f))
         ELSE IF r.out.tag = "Ok" THEN [r EXCEPT !.user = r.out.data]
              ELSE Fail(r, r.out)

MatchGetUser(r, f, username) ==
    IF r.res # "run" THEN r
    ELSE IF r.out.tag = "Err" /\ r.out.error.kind = "GraphQl"
            /\ r.out.error.message = "Entity not found: ^" \o username \o "^"
         THEN Then(Try(create_user(r, f, username)), LAMBDA r1 : CreatedUser(r1, f))
         ELSE IF r.out.tag = "Ok" THEN [r EXCEPT !.user = r.out.data]
              ELSE Fail(r, r.out)

GetOrCreateUser(r, f, username) ==
    Then(get_user(r, f, username), LAMBDA r1 : MatchGetUser(r1, f, username))

RoleGroup(password_manager) ==
    IF password_manager THEN "lldap_password_manager" ELSE "lldap_strict_readonly"

(* groups = additional_groups.clone(); groups.push(role group);            *)
(* update_user_groups(&user, &groups)                                      *)
UpdateGroups(r, f, obj) ==
    IF r.res # "run" THEN r
    ELSE update_user_groups(r, f, Unwrap(r.user),
                            Append(obj.additional_groups, RoleGroup(obj.password_manager)))

(* secret.get().data.as_ref().unwrap().get("password").unwrap(), from_utf8 *)
(* (..).unwrap(), update_password                                          *)
UpdatePasswordFromSecret(r, f, username) ==
    IF r.res # "run" THEN r
    ELSE IF Unwrap(r.secret).data = None THEN Panic(r, "unwrap: data is None")
    ELSE IF "password" \notin DOMAIN Unwrap(Unwrap(r.secret).data)
         THEN Panic(r, "unwrap: no password")
    ELSE IF Unwrap(Unwrap(r.secret).data)["password"] = NonUtf8
         THEN Panic(r, "unwrap: Utf8Error")
    ELSE update_password(r, f, username, Unwrap(Unwrap(r.secret).data)["password"])

patch_status(r, f) ==
    IF r.res # "run" THEN r
    ELSE IF Hits(f, "patch_status", 0)
         THEN Err(Call(r, f, "patch_status", 0, "patch_status", 0), "Kube", "patch_status")
         ELSE [Call(r, f, "patch_status", 0, "patch_status", 0) EXCEPT
                  !.status = Some(Unwrap(r.secret).creation_timestamp)]

Username(obj) == format_username(Unwrap(obj.name), Unwrap(obj.namespace))

(* reconcile as it would be if the password were registered before the    *)
(* groups are updated                                                      *)
ServiceUser_reconcile_password_before_groups(obj, f, password) ==
    IF obj.name = None THEN Err(Run0, "MissingObjectKey", ".metadata.name")
    ELSE IF obj.namespace = None THEN Err(Run0, "MissingObjectKey", ".metadata.namespace")
    ELSE IF controller_owner_ref(obj) = None THEN Panic(Run0, "Field should populated by apiserver")
    ELSE
    Then(GetOrCreateSecret(Run0, f, <<Unwrap(obj.namespace), secret_name_of(Unwrap(obj.name))>>,
                           Username(obj), Unwrap(controller_owner_ref(obj)), password),
         LAMBDA r1 :
    Then(SecretCreatedEvent(r1, f), LAMBDA r2 :
    Then(build_client(r2, f), LAMBDA r3 :
    Then(GetOrCreateUser(r3, f, Username(obj)), LAMBDA r4 :
    Then(UpdatePasswordFromSecret(r4, f, Username(obj)), LAMBDA r5 :
    Then(UpdateGroups(r5, f, obj), LAMBDA r6 :
    Then(patch_status(r6, f), LAMBDA r7 :
    ReturnOk(r7, Action_requeue(3600)))))))))

(* reconcile as it would be if the status were patched right after the    *)
(* Secret is committed                                                     *)
ServiceUser_reconcile_patching_status_first(obj, f, password) ==
    IF obj.name = None THEN Err(Run0, "MissingObjectKey", ".metadata.name")
    ELSE IF obj.namespace = None THEN Err(Run0, "MissingObjectKey", ".metadata.namespace")
    ELSE IF controller_owner_ref(obj) = None THEN Panic(Run0, "Field should populated by apiserver")
    ELSE
    Then(GetOrCreateSecret(Run0, f, <<Unwrap(obj.namespace), secret_name_of(Unwrap(obj.name))>>,
                           Username(obj), Unwrap(controller_owner_ref(obj)), password),
         LAMBDA r1 :
    Then(SecretCreatedEvent(r1, f), LAMBDA r2 :
    Then(patch_status(r2, f), LAMBDA r3 :
    Then(build_client(r3, f), LAMBDA r4 :
    Then(GetOrCreateUser(r4, f, Username(obj)), LAMBDA r5 :
    Then(UpdateGroups(r5, f, obj), LAMBDA r6 :
    Then(UpdatePasswordFromSecret(r6, f, Username(obj)), LAMBDA r7 :
    ReturnOk(r7, Action_requeue(3600)))))))))

(* reconcile as it would be if the event were sent from within or_insert, *)
(* before the Secret is committed                                          *)
ServiceUser_reconcile_event_before_commit(obj, f, password) ==
    IF obj.name = None THEN Err(Run0, "MissingObjectKey", ".metadata.name")
    ELSE IF obj.namespace = None THEN Err(Run0, "MissingObjectKey", ".metadata.namespace")
    ELSE IF controller_owner_ref(obj) = None THEN Panic(Run0, "Field should populated by apiserver")
    ELSE
    Then(Entry(Run0, f, <<Unwrap(obj.namespace), secret_name_of(Unwrap(obj.name))>>), LAMBDA r0 :
    Then(SecretCreatedEvent(r0, f), LAMBDA r1 :
    Then(Commit(r1, f, <<Unwrap(obj.namespace), secret_name_of(Unwrap(obj.name))>>,
                new_secret(Username(obj), Unwrap(controller_owner_ref(obj)), password)),
         LAMBDA r2 :
    Then(build_client(r2, f), LAMBDA r3 :
    Then(GetOrCreateUser(r3, f, Username(obj)), LAMBDA r4 :
    Then(UpdateGroups(r4, f, obj), LAMBDA r5 :
    Then(UpdatePasswordFromSecret(r5, f, Username(obj)), LAMBDA r6 :
    Then(patch_status(r6, f), LAMBDA r7 :
    ReturnOk(r7, Action_requeue(3600))))))))))

(* impl Reconcile for ServiceUser: reconcile (apply) *)
ServiceUser_reconcile(obj, f, password) ==
    IF obj.name = None THEN Err(Run0, "MissingObjectKey", ".metadata.name")
    ELSE IF obj.namespace = None THEN Err(Run0, "MissingObjectKey", ".metadata.namespace")
    ELSE IF controller_owner_ref(obj) = None THEN Panic(Run0, "Field should populated by apiserver")
    ELSE
    Then(GetOrCreateSecret(Run0, f, <<Unwrap(obj.namespace), secret_name_of(Unwrap(obj.name))>>,
                           Username(obj), Unwrap(controller_owner_ref(obj)), password),
         LAMBDA r1 :
    Then(SecretCreatedEvent(r1, f), LAMBDA r2 :
    Then(build_client(r2, f), LAMBDA r3 :
    Then(GetOrCreateUser(r3, f, Username(obj)), LAMBDA r4 :
    Then(UpdateGroups(r4, f, obj), LAMBDA r5 :
    Then(UpdatePasswordFromSecret(r5, f, Username(obj)), LAMBDA r6 :
    Then(patch_status(r6, f), LAMBDA r7 :
    ReturnOk(r7, Action_requeue(3600)))))))))

(* The match as it would be without the arm for a user that is gone       *)
MatchDeleteUser_without_not_found_arm(r, f, username) ==
    IF r.res # "run" THEN r
    ELSE IF r.out.tag = "Ok" THEN user_deleted(r, f)
         ELSE Fail(r, r.out)

(* The match as it would be if every Err of delete_user were taken for    *)
(* the user being gone already                                             *)
MatchDeleteUser_any_error_is_not_found(r, f, username) ==
    IF r.res # "run" THEN r
    ELSE IF r.out.tag = "Err" THEN user_not_found(r, f)
         ELSE IF r.out.tag = "Ok" THEN user_deleted(r, f)
              ELSE Fail(r, r.out)

(* The match on delete_user's result *)
MatchDeleteUser(r, f, username) ==
    IF r.res # "run" THEN r
    ELSE IF r.out.tag = "Err" /\ r.out.error.kind = "GraphQl"
            /\ r.out.error.message = "Entity not found: ^No such user: '" \o username \o "'^"
         THEN user_not_found(r, f)
         ELSE IF r.out.tag = "Ok" THEN user_deleted(r, f)
              ELSE Fail(r, r.out)

(* cleanup as it would be if it logged in before it looked at the          *)
(* object's metadata                                                       *)
ServiceUser_cleanup_logging_in_first(obj, f) ==
    Then(build_client(Run0, f), LAMBDA r1 :
    IF r1.res # "run" THEN r1
    ELSE IF obj.name = None THEN Err(r1, "MissingObjectKey", ".metadata.name")
    ELSE IF obj.namespace = None THEN Err(r1, "MissingObjectKey", ".metadata.namespace")
    ELSE
    Then(delete_user(r1, f, Username(obj)), LAMBDA r2 :
    Then(MatchDeleteUser(r2, f, Username(obj)), LAMBDA r3 :
    ReturnOk(r3, Action_await_change))))

(* cleanup as it would be if it deleted the object's Secret after the      *)
(* directory user                                                          *)
ServiceUser_cleanup_deleting_the_secret(obj, f) ==
    IF obj.name = None THEN Err(Run0, "MissingObjectKey", ".metadata.name")
    ELSE IF obj.namespace = None THEN Err(Run0, "MissingObjectKey", ".metadata.namespace")
    ELSE
    Then(build_client(Run0, f), LAMBDA r1 :
    Then(delete_user(r1, f, Username(obj)), LAMBDA r2 :
    Then(MatchDeleteUser(r2, f, Username(obj)), LAMBDA r3 :
    Then(IF r3.res # "run" THEN r3
         ELSE [r3 EXCEPT !.secrets =
                  Remove(@, <<Unwrap(obj.namespace), secret_name_of(Unwrap(obj.name))>>)],
         LAMBDA r4 :
    ReturnOk(r4, Action_await_change)))))

(* impl Reconcile for ServiceUser: cleanup *)
ServiceUser_cleanup(obj, f) ==
    IF obj.name = None THEN Err(Run0, "MissingObjectKey", ".metadata.name")
    ELSE IF obj.namespace = None THEN Err(Run0, "MissingObjectKey", ".metadata.namespace")
    ELSE
    Then(build_client(Run0, f), LAMBDA r1 :
    Then(delete_user(r1, f, Username(obj)), LAMBDA r2 :
    Then(MatchDeleteUser(r2, f, Username(obj)), LAMBDA r3 :
    ReturnOk(r3, Action_await_change))))

-----------------------------------------------------------------------------
(* resources/group.rs.  The directory calls create_group and delete_group  *)
(* are those of the directory client as the design describes them.         *)

CreateGroupResponse(r, name) ==
    IF \E id \in DOMAIN r.groups : r.groups[id] = name
    THEN GraphQlError("UNIQUE constraint failed: groups.display_name")
    ELSE GraphQlResponse(None, Some([id |-> r.nextGid, display_name |-> name]))

create_group(r, f, name) ==
    IF r.res # "run" THEN r
    ELSE [Call(r, f, "create_group", 0, "create_group", 0) EXCEPT
             !.out = GraphQlCall(f, "create_group", 0, CreateGroupResponse(r, name)),
             !.groups = IF ~Hits(f, "create_group", 0)
                           /\ ~\E id \in DOMAIN r.groups : r.groups[id] = name
                        THEN r.nextGid :> name @@ @
                        ELSE @,
             !.nextGid = IF ~Hits(f, "create_group", 0)
                            /\ ~\E id \in DOMAIN r.groups : r.groups[id] = name
                         THEN @ + 1
                         ELSE @]

DeleteGroupResponse(r, id) ==
    IF id \in DOMAIN r.groups THEN GraphQlResponse(None, Some("ok"))
    ELSE GraphQlError("Entity not found")

(* The directory drops the memberships of a group it deletes *)
delete_group(r, f, id) ==
    IF r.res # "run" THEN r
    ELSE [Call(r, f, "delete_group", 0, "delete_group", id) EXCEPT
             !.out = GraphQlCall(f, "delete_group", 0, DeleteGroupResponse(r, id)),
             !.groups = IF ~Hits(f, "delete_group", 0) /\ id \in DOMAIN r.groups
                        THEN Remove(@, id)
                        ELSE @,
             !.users = IF ~Hits(f, "delete_group", 0) /\ id \in DOMAIN r.groups
                       THEN [u \in DOMAIN @ |-> [@[u] EXCEPT !.groups = @ \ {id}]]
                       ELSE @]

DisplayNames(all_groups) == [i \in 1..Len(all_groups) |-> all_groups[i].display_name]

(* The branch as it would be if the event were sent for an existing       *)
(* group too                                                               *)
CreateIfMissing_always_emitting(r, f, name) ==
    IF r.res # "run" THEN r
    ELSE IF ~Contains(DisplayNames(Unwrap(r.out.data)), name)
         THEN Then(Try(create_group(r, f, name)), LAMBDA r1 : group_created(r1, f))
         ELSE group_created(r, f)

(* if !groups.iter().any(|g| g.display_name == name) { create_group; group_created } *)
CreateIfMissing(r, f, name) ==
    IF r.res # "run" THEN r
    ELSE IF ~Contains(DisplayNames(Unwrap(r.out.data)), name)
         THEN Then(Try(create_group(r, f, name)), LAMBDA r1 : group_created(r1, f))
         ELSE r

(* impl Reconcile for Group: reconcile (apply) *)
Group_reconcile(obj, f) ==
    IF obj.name = None THEN Err(Run0, "MissingObjectKey", ".metadata.name")
    ELSE
    Then(build_client(Run0, f), LAMBDA r1 :
    Then(Try(get_groups(r1, f)), LAMBDA r2 :
    Then(CreateIfMissing(r2, f, Unwrap(obj.name)), LAMBDA r3 :
    ReturnOk(r3, Action_requeue(3600)))))

(* The branch as it would be if it deleted the first group listed         *)
DeleteIfFound_deleting_the_first_listed(r, f, name) ==
    IF r.res # "run" THEN r
    ELSE IF FindGroup(Unwrap(r.out.data), name) # << >>
         THEN Then(Try(delete_group(r, f, Head(Unwrap(r.out.data)).id)),
                   LAMBDA r1 : group_deleted(r1, f))
         ELSE r

(* if let Some(group) = groups.iter().find(..) { delete_group; group_deleted } *)
DeleteIfFound(r, f, name) ==
    IF r.res # "run" THEN r
    ELSE IF FindGroup(Unwrap(r.out.data), name) # << >>
         THEN Then(Try(delete_group(r, f, Head(FindGroup(Unwrap(r.out.data), name)))),
                   LAMBDA r1 : group_deleted(r1, f))
         ELSE r

(* impl Reconcile for Group: cleanup *)
Group_cleanup(obj, f) ==
    IF obj.name = None THEN Err(Run0, "MissingObjectKey", ".metadata.name")
    ELSE
    Then(build_client(Run0, f), LAMBDA r1 :
    Then(Try(get_groups(r1, f)), LAMBDA r2 :
    Then(DeleteIfFound(r2, f, Unwrap(obj.name)), LAMBDA r3 :
    ReturnOk(r3, Action_await_change))))

-----------------------------------------------------------------------------
(* resources/mod.rs: the dispatcher.  kube::runtime::finalizer decides by  *)
(* the object's finalizer list and deletion timestamp; meta is             *)
(* [name, finalizer, deleting].  apply and cleanup are the runs the two    *)
(* handlers make when called.                                              *)

(* The JSON patch that removes the finalizer, after a cleanup that         *)
(* returned Ok                                                             *)
RemoveFinalizer(r, f) ==
    IF Hits(f, "remove_finalizer", 0)
    THEN [Err(Naming(Call(r, f, "remove_finalizer", 0, "remove_finalizer", 0), CONTROLLER_NAME),
              "Kube", "remove_finalizer")
             EXCEPT !.op = "cleanup", !.wrapped = "RemoveFinalizer", !.action = NoAction]
    ELSE [Naming(Call(r, f, "remove_finalizer", 0, "remove_finalizer", 0), CONTROLLER_NAME) EXCEPT
             !.op = "cleanup", !.res = "ok", !.finalizer = Some(FALSE)]

(* The JSON patch that adds the finalizer *)
AddFinalizer(r, f) ==
    IF Hits(f, "add_finalizer", 0)
    THEN [Err(Naming(Call(r, f, "add_finalizer", 0, "add_finalizer", 0), CONTROLLER_NAME),
              "Kube", "add_finalizer")
             EXCEPT !.op = "add_finalizer", !.wrapped = "AddFinalizer"]
    ELSE [Ok(Naming(Call(r, f, "add_finalizer", 0, "add_finalizer", 0), CONTROLLER_NAME),
             Action_await_change)
             EXCEPT !.op = "add_finalizer", !.finalizer = Some(TRUE)]

(* finalizer as it would be if an object were applied before it carries    *)
(* the finalizer                                                           *)
finalizer_applying_at_once(meta, apply, cleanup, f) ==
    IF ~meta.deleting
    THEN Then(apply, LAMBDA a :
              [a EXCEPT !.op = "apply", !.handler = a.res,
                        !.wrapped = IF a.res = "err" THEN "ApplyFailed" ELSE ""])
    ELSE IF meta.finalizer
    THEN Then(cleanup, LAMBDA c :
              IF c.res = "err"
              THEN [c EXCEPT !.op = "cleanup", !.handler = "err", !.wrapped = "CleanupFailed"]
              ELSE IF c.res = "panic"
              THEN [c EXCEPT !.op = "cleanup", !.handler = "panic"]
              ELSE RemoveFinalizer([c EXCEPT !.handler = "ok"], f))
    ELSE Ok([Run0 EXCEPT !.op = "done"], Action_await_change)

(* finalizer as it would be if Event::Cleanup removed the finalizer        *)
(* whatever cleanup returned                                               *)
finalizer_removing_unconditionally(meta, apply, cleanup, f) ==
    IF meta.finalizer /\ ~meta.deleting
    THEN Then(apply, LAMBDA a :
              [a EXCEPT !.op = "apply", !.handler = a.res,
                        !.wrapped = IF a.res = "err" THEN "ApplyFailed" ELSE ""])
    ELSE IF meta.finalizer /\ meta.deleting
    THEN Then(cleanup, LAMBDA c : RemoveFinalizer([c EXCEPT !.handler = c.res], f))
    ELSE IF ~meta.deleting
    THEN AddFinalizer(Run0, f)
    ELSE Ok([Run0 EXCEPT !.op = "done"], Action_await_change)

finalizer(meta, apply, cleanup, f) ==
    IF meta.finalizer /\ ~meta.deleting
    THEN Then(apply, LAMBDA a :
              [a EXCEPT !.op = "apply", !.handler = a.res,
                        !.wrapped = IF a.res = "err" THEN "ApplyFailed" ELSE ""])
    ELSE IF meta.finalizer /\ meta.deleting
    THEN IF meta.name = None
         THEN [Err(Run0, "Finalizer", "") EXCEPT !.op = "cleanup", !.wrapped = "UnnamedObject"]
         ELSE Then(cleanup, LAMBDA c :
                  IF c.res = "err"
                  THEN [c EXCEPT !.op = "cleanup", !.handler = "err", !.wrapped = "CleanupFailed"]
                  ELSE IF c.res = "panic"
                  THEN [c EXCEPT !.op = "cleanup", !.handler = "panic"]
                  ELSE RemoveFinalizer([c EXCEPT !.handler = "ok"], f))
    ELSE IF ~meta.deleting
    THEN AddFinalizer(Run0, f)
    ELSE Ok([Run0 EXCEPT !.op = "done"], Action_await_change)

(* pub async fn reconcile<T>(obj, ctx): the namespace is expected, the     *)
(* finalizer error converted with `?`.                                     *)
reconcile(obj, meta, apply, cleanup, f) ==
    IF obj.namespace = None THEN Panic(Run0, "Resource is namespace scoped")
    ELSE finalizer(meta, apply, cleanup, f)

(* The same dispatch for the cluster-scoped Group *)
reconcile_group(obj, meta, apply, cleanup, f) == finalizer(meta, apply, cleanup, f)

(* The policy as it would be if cluster errors were retried more slowly   *)
(* than directory errors                                                   *)
error_policy_by_error_kind(err) ==
    IF err.kind \in {"Kube", "Commit"} THEN Action_requeue(60) ELSE Action_requeue(5)

(* The policy as it would be if a failed dispatch waited for a change *)
error_policy_awaiting_change(err) == Action_await_change

(* main.rs: error_policy *)
error_policy(err) == Action_requeue(5)

-----------------------------------------------------------------------------
(* The state machine *)

(* The objects a controller is asked to reconcile: (kind, key) *)
ObjRefs ==
    {<<"ServiceUser", key>> : key \in ServiceUserKeys} \cup {<<"Group", <<name>>>> : name \in GroupNames}

(* The runtime of the two controllers.  scheduled: the requests the        *)
(* scheduler holds for an object; running: the reconciles in flight for    *)
(* it; obj: the object each was handed; changes: the changes observed      *)
(* while it has been in flight (counted up to MaxChanges).                 *)
ControllerIdle ==
    [scheduled |-> [ref \in ObjRefs |-> 0], running |-> [ref \in ObjRefs |-> 0],
     obj |-> [ref \in ObjRefs |-> IF ref[1] = "ServiceUser" THEN NoServiceUser ELSE NoGroup],
     changes |-> [ref \in ObjRefs |-> 0]]

Idle ==
    [kind |-> "none", key |-> << >>, op |-> "none", res |-> "ok", handler |-> "none",
     error |-> NoError, wrapped |-> "", action |-> NoAction, events |-> << >>, types |-> << >>,
     reqs |-> << >>, fault |-> NoFault, patched |-> FALSE]

Init ==
    /\ service_users = [key \in ServiceUserKeys |-> NoServiceUser]
    /\ group_objects = [name \in GroupNames |-> NoGroup]
    /\ secrets = << >>
    /\ users = << >>
    /\ groups = BuiltinGroups
    /\ nextGid = 4
    /\ clock = 0
    /\ last = Idle
    /\ controller = ControllerIdle

(* What the dispatch leaves in `last` *)
Report(kind, key, r, f) ==
    [kind |-> kind, key |-> key, op |-> r.op, res |-> r.res, handler |-> r.handler,
     error |-> r.error, wrapped |-> r.wrapped,
     action |-> IF r.res = "err" THEN error_policy(r.error) ELSE r.action,
     events |-> r.events, types |-> r.types, reqs |-> r.reqs, fault |-> f,
     patched |-> r.status # None]

(* The garbage collector's cascade: the Secrets of the namespace that name *)
(* the removed object as an owner go with it.                              *)
Owns(secret, key) ==
    /\ secret.owner_references # None
    /\ \E i \in 1..Len(Unwrap(secret.owner_references)) :
          Unwrap(secret.owner_references)[i].name = key[2]

Cascade(ss, key) ==
    [k \in {k \in DOMAIN ss : ~(k[1] = key[1] /\ Owns(ss[k], key))} |-> ss[k]]

(* The state a run leaves behind for the ServiceUser `key`; at most bound  *)
(* Secrets are created in a behaviour.                                     *)
CommitServiceUser(key, r, f, bound) ==
    /\ r.clock <= bound
    /\ service_users' =
          [service_users EXCEPT ![key] =
              IF r.finalizer = Some(FALSE) THEN NoServiceUser
              ELSE [@ EXCEPT !.finalizer = IF r.finalizer = None THEN @ ELSE Unwrap(r.finalizer),
                             !.secret_created = IF r.status = None THEN @ ELSE Unwrap(r.status)]]
    /\ secrets' = IF r.finalizer = Some(FALSE) THEN Cascade(r.secrets, key) ELSE r.secrets
    /\ users' = r.users
    /\ groups' = r.groups
    /\ nextGid' = r.nextGid
    /\ clock' = r.clock
    /\ last' = Report("ServiceUser", key, r, f)
    /\ UNCHANGED group_objects

(* One dispatch of the ServiceUser controller for `key`; password is what  *)
(* the password generator returns if the dispatch calls it.                *)
ServiceUserRunOn(su, key, f, password) ==
    reconcile(ServiceUserObjOf(su, key),
              [name |-> ServiceUserObjOf(su, key).name, finalizer |-> su.finalizer,
               deleting |-> su.deleting],
              ServiceUser_reconcile(ServiceUserObjOf(su, key), f, password),
              ServiceUser_cleanup(ServiceUserObjOf(su, key), f), f)

ServiceUserRun(key, f, password) == ServiceUserRunOn(service_users[key], key, f, password)

(* The faults that name one of the calls `sites` *)
Hitting(sites) == {f \in Faults : <<f.at, f.k>> \in sites}

(* The faults that can hit this dispatch: those naming a call its          *)
(* fault-free run makes (up to the call that fails, a run is that run).    *)
ServiceUserFaults(key) ==
    UNION {Hitting(r.sites) : r \in {ServiceUserRun(key, NoFault, GeneratedPassword(clock + 1))}}

DispatchServiceUser(key, f) ==
    /\ service_users[key].exists
    /\ \E r \in {ServiceUserRun(key, f, GeneratedPassword(clock + 1))} :
          CommitServiceUser(key, r, f, MaxClock)
    /\ UNCHANGED controller

GroupRunOn(g, name, f) ==
    reconcile_group(GroupObj(name),
                    [name |-> GroupObj(name).name, finalizer |-> g.finalizer,
                     deleting |-> g.deleting],
                    Group_reconcile(GroupObj(name), f), Group_cleanup(GroupObj(name), f), f)

GroupRun(name, f) == GroupRunOn(group_objects[name], name, f)

GroupFaults(name) == UNION {Hitting(r.sites) : r \in {GroupRun(name, NoFault)}}

(* The state a run leaves behind for the Group `name` *)
CommitGroup(name, r, f) ==
    /\ r.nextGid <= MaxGid + 1
    /\ group_objects' =
          [group_objects EXCEPT ![name] =
              IF r.finalizer = Some(FALSE) THEN NoGroup
              ELSE [@ EXCEPT !.finalizer = IF r.finalizer = None THEN @ ELSE Unwrap(r.finalizer)]]
    /\ users' = r.users
    /\ groups' = r.groups
    /\ nextGid' = r.nextGid
    /\ last' = Report("Group", <<name>>, r, f)
    /\ UNCHANGED <<service_users, secrets, clock>>

DispatchGroup(name, f) ==
    /\ group_objects[name].exists
    /\ \E r \in {GroupRun(name, f)} : CommitGroup(name, r, f)
    /\ UNCHANGED controller

(* The users of the cluster *)
CreateServiceUser(key, password_manager, additional_groups) ==
    /\ ~service_users[key].exists
    /\ service_users' = [service_users EXCEPT ![key] =
          [NoServiceUser EXCEPT !.exists = TRUE, !.password_manager = password_manager,
                                !.additional_groups = additional_groups]]
    /\ last' = Idle
    /\ UNCHANGED <<group_objects, secrets, users, groups, nextGid, clock>>

UpdateServiceUser(key, password_manager, additional_groups) ==
    /\ service_users[key].exists
    /\ ~service_users[key].deleting
    /\ <<password_manager, additional_groups>>
          # <<service_users[key].password_manager, service_users[key].additional_groups>>
    /\ service_users' = [service_users EXCEPT ![key].password_manager = password_manager,
                                              ![key].additional_groups = additional_groups]
    /\ last' = Idle
    /\ UNCHANGED <<group_objects, secrets, users, groups, nextGid, clock>>

(* kubectl delete: the deletion timestamp is set and the object stays as   *)
(* long as it carries a finalizer.                                         *)
DeleteServiceUser(key) ==
    /\ service_users[key].exists
    /\ ~service_users[key].deleting
    /\ IF service_users[key].finalizer
       THEN /\ service_users' = [service_users EXCEPT ![key].deleting = TRUE]
            /\ UNCHANGED secrets
       ELSE /\ service_users' = [service_users EXCEPT ![key] = NoServiceUser]
            /\ secrets' = Cascade(secrets, key)
    /\ last' = Idle
    /\ UNCHANGED <<group_objects, users, groups, nextGid, clock>>

CreateGroupObject(name) ==
    /\ ~group_objects[name].exists
    /\ group_objects' = [group_objects EXCEPT ![name] = [NoGroup EXCEPT !.exists = TRUE]]
    /\ last' = Idle
    /\ UNCHANGED <<service_users, secrets, users, groups, nextGid, clock>>

DeleteGroupObject(name) ==
    /\ group_objects[name].exists
    /\ ~group_objects[name].deleting
    /\ group_objects' = [group_objects EXCEPT ![name] =
          IF @.finalizer THEN [@ EXCEPT !.deleting = TRUE] ELSE NoGroup]
    /\ last' = Idle
    /\ UNCHANGED <<service_users, secrets, users, groups, nextGid, clock>>

(* Third parties with access to the namespace's Secrets *)
ForeignData ==
    {None,
     Some([k \in {"username"} |-> ForeignUsername]),
     Some([k \in {"username", "password"} |->
              IF k = "username" THEN ForeignUsername ELSE ForeignPassword]),
     Some([k \in {"username", "password"} |->
              IF k = "username" THEN ForeignUsername ELSE NonUtf8])}

ThirdPartyCreatesSecret(key, data) ==
    /\ SecretKey(key) \notin DOMAIN secrets
    /\ clock < MaxSecrets
    /\ secrets' = SecretKey(key) :>
                     [owner_references |-> None, data |-> data,
                      creation_timestamp |-> Some(clock + 1)] @@ secrets
    /\ clock' = clock + 1
    /\ last' = Idle
    /\ UNCHANGED <<service_users, group_objects, users, groups, nextGid>>

ThirdPartyRemovesPassword(key) ==
    /\ SecretKey(key) \in DOMAIN secrets
    /\ secrets[SecretKey(key)].data # None
    /\ "password" \in DOMAIN Unwrap(secrets[SecretKey(key)].data)
    /\ secrets' = [secrets EXCEPT ![SecretKey(key)].data = Some(Remove(Unwrap(@), "password"))]
    /\ last' = Idle
    /\ UNCHANGED <<service_users, group_objects, users, groups, nextGid, clock>>

ThirdPartyDeletesSecret(key) ==
    /\ SecretKey(key) \in DOMAIN secrets
    /\ secrets' = Remove(secrets, SecretKey(key))
    /\ last' = Idle
    /\ UNCHANGED <<service_users, group_objects, users, groups, nextGid, clock>>

(* The controllers and the users of the cluster; every call of a dispatch  *)
(* may fail.                                                               *)
Next ==
    \/ \E key \in ServiceUserKeys : \E f \in ServiceUserFaults(key) \cup {NoFault} :
          DispatchServiceUser(key, f)
    \/ \E name \in GroupNames : \E f \in GroupFaults(name) \cup {NoFault} : DispatchGroup(name, f)
    \/ \E key \in ServiceUserKeys, pm \in BOOLEAN, ag \in AdditionalGroupsChoices :
          CreateServiceUser(key, pm, ag) /\ UNCHANGED controller
    \/ \E key \in ServiceUserKeys, pm \in BOOLEAN, ag \in AdditionalGroupsChoices :
          UpdateServiceUser(key, pm, ag) /\ UNCHANGED controller
    \/ \E key \in ServiceUserKeys : DeleteServiceUser(key) /\ UNCHANGED controller
    \/ \E name \in GroupNames : CreateGroupObject(name) /\ UNCHANGED controller
    \/ \E name \in GroupNames : DeleteGroupObject(name) /\ UNCHANGED controller

Spec == Init /\ [][Next]_vars

(* The ServiceUser controller next to third parties that write the         *)
(* namespace's Secrets; the calls of a dispatch succeed.                   *)
DispatchAmongThirdParties(key) ==
    /\ service_users[key].exists
    /\ \E r \in {ServiceUserRun(key, NoFault, GeneratedPassword(clock + 1))} :
          CommitServiceUser(key, r, NoFault, MaxSecrets)
    /\ UNCHANGED controller

ThirdPartyNext ==
    \/ \E key \in ServiceUserKeys : DispatchAmongThirdParties(key)
    \/ \E key \in ServiceUserKeys, pm \in BOOLEAN, ag \in AdditionalGroupsChoices :
          CreateServiceUser(key, pm, ag) /\ UNCHANGED controller
    \/ \E key \in ServiceUserKeys, pm \in BOOLEAN, ag \in AdditionalGroupsChoices :
          UpdateServiceUser(key, pm, ag) /\ UNCHANGED controller
    \/ \E key \in ServiceUserKeys : DeleteServiceUser(key) /\ UNCHANGED controller
    \/ \E key \in ServiceUserKeys, data \in ForeignData :
          ThirdPartyCreatesSecret(key, data) /\ UNCHANGED controller
    \/ \E key \in ServiceUserKeys : ThirdPartyRemovesPassword(key) /\ UNCHANGED controller
    \/ \E key \in ServiceUserKeys : ThirdPartyDeletesSecret(key) /\ UNCHANGED controller

ThirdPartySpec == Init /\ [][ThirdPartyNext]_vars

(* The ServiceUser controller, every call of whose dispatches may fail,    *)
(* next to a third party that deletes Secrets.                             *)
DispatchAfterSecretLoss(key, f) ==
    /\ service_users[key].exists
    /\ \E r \in {ServiceUserRun(key, f, GeneratedPassword(clock + 1))} :
          CommitServiceUser(key, r, f, MaxSecrets)
    /\ UNCHANGED controller

SecretLossNext ==
    \/ \E key \in ServiceUserKeys : \E f \in ServiceUserFaults(key) \cup {NoFault} :
          DispatchAfterSecretLoss(key, f)
    \/ \E key \in ServiceUserKeys, pm \in BOOLEAN, ag \in AdditionalGroupsChoices :
          CreateServiceUser(key, pm, ag) /\ UNCHANGED controller
    \/ \E key \in ServiceUserKeys : DeleteServiceUser(key) /\ UNCHANGED controller
    \/ \E key \in ServiceUserKeys : ThirdPartyDeletesSecret(key) /\ UNCHANGED controller

SecretLossSpec == Init /\ [][SecretLossNext]_vars

(* A directory outage.  A ServiceUser with its finalizer is to be applied  *)
(* for the first time; the directory, with or without the group the       *)
(* object names, is unreachable at the calls the dispatches make, and      *)
(* reachable again later: a failed dispatch is requeued (error_policy), a  *)
(* successful one too (after an hour), so a dispatch whose calls all       *)
(* succeed is not put off forever.                                         *)
OutageFaults == {f \in Faults : f.how = "transport"}

OutageInit ==
    /\ \E pm \in BOOLEAN, ag \in AdditionalGroupsChoices :
          service_users = [key \in ServiceUserKeys |->
              [NoServiceUser EXCEPT !.exists = TRUE, !.finalizer = TRUE,
                                    !.password_manager = pm, !.additional_groups = ag]]
    /\ group_objects = [name \in GroupNames |-> NoGroup]
    /\ secrets = << >>
    /\ users = << >>
    /\ \/ groups = BuiltinGroups /\ nextGid = 4
       \/ groups = BuiltinGroups @@ (4 :> "grafana-admins") /\ nextGid = 5
    /\ clock = 0
    /\ last = Idle
    /\ controller = ControllerIdle

DispatchDuringOutage(key, f) == DispatchServiceUser(key, f)

DispatchWithDirectory(key) == DispatchServiceUser(key, NoFault)

OutageNext ==
    \/ \E key \in ServiceUserKeys : \E f \in ServiceUserFaults(key) \cap OutageFaults :
          DispatchDuringOutage(key, f)
    \/ \E key \in ServiceUserKeys : DispatchWithDirectory(key)

OutageSpec ==
    /\ OutageInit
    /\ [][OutageNext]_vars
    /\ \A key \in ServiceUserKeys : WF_vars(DispatchWithDirectory(key))

-----------------------------------------------------------------------------
(* The controllers' runtime (Controller::run): per kind, a watch on the    *)
(* objects feeds a scheduler keyed by object; the runner takes a request   *)
(* when no reconcile of that object is in flight, hands the reconciler     *)
(* the object as the cache has it, and feeds the action it returns (or     *)
(* error_policy's) back to the scheduler.  The calls of a dispatch are     *)
(* made when it finishes.                                                  *)

MaxChanges == 2     \* changes counted while one reconcile is in flight

(* The scheduler as it would be if it kept every request it is sent *)
Schedule_without_merging(c, ref) ==
    [c EXCEPT !.scheduled[ref] = @ + 1,
              !.changes[ref] = IF c.running[ref] > 0 THEN Min({@ + 1, MaxChanges}) ELSE @]

(* A request for ref reaches the scheduler, which keeps one per object *)
Schedule(c, ref) ==
    [c EXCEPT !.scheduled[ref] = 1,
              !.changes[ref] = IF c.running[ref] > 0 THEN Min({@ + 1, MaxChanges}) ELSE @]

(* The runner as it would be if it did not hold requests back *)
Free_whatever_is_in_flight(c, ref) == TRUE

(* The runner holds a request back while a reconcile of its object runs *)
Free(c, ref) == c.running[ref] = 0

(* The object of a request as the cluster has it *)
Cached(ref) ==
    IF ref[1] = "ServiceUser" THEN service_users[ref[2]] ELSE group_objects[ref[2][1]]

(* The runner takes the request for ref: the reconcile starts with the     *)
(* object as cached, or not at all when the object is gone.                *)
StartDispatch(ref) ==
    /\ controller.scheduled[ref] > 0
    /\ Free(controller, ref)
    /\ controller' =
          IF Cached(ref).exists
          THEN [controller EXCEPT !.scheduled[ref] = @ - 1, !.running[ref] = @ + 1,
                                  !.obj[ref] = Cached(ref), !.changes[ref] = 0]
          ELSE [controller EXCEPT !.scheduled[ref] = @ - 1, !.changes[ref] = 0]
    /\ last' = Idle
    /\ UNCHANGED <<service_users, group_objects, secrets, users, groups, nextGid, clock>>

(* What a finished reconcile sends the scheduler: its action or            *)
(* error_policy's, if that is a requeue, and the watch events of what it   *)
(* wrote (the object's finalizers or status, an owned Secret).             *)
Triggers(r) ==
    \/ r.res = "err" /\ error_policy(r.error).kind = "requeue"
    \/ r.res = "ok" /\ r.action.kind = "requeue"
    \/ r.finalizer # None \/ r.status # None \/ r.clock # clock

Finished(c, ref, r) ==
    IF Triggers(r)
    THEN Schedule([c EXCEPT !.running[ref] = @ - 1], ref)
    ELSE [c EXCEPT !.running[ref] = @ - 1]

(* The patch of an object that is gone fails *)
Gone == [at |-> "add_finalizer", how |-> "error", k |-> 0]

ControllerFaults == {NoFault, [at |-> "login", how |-> "transport", k |-> 0]}

FinishServiceUser(key, f) ==
    /\ controller.running[<<"ServiceUser", key>>] > 0
    /\ IF service_users[key].exists THEN f \in ControllerFaults ELSE f = Gone
    /\ \E r \in {ServiceUserRunOn(controller.obj[<<"ServiceUser", key>>], key, f,
                                  GeneratedPassword(clock + 1))} :
          /\ CommitServiceUser(key, r, f, MaxClock)
          /\ controller' = Finished(controller, <<"ServiceUser", key>>, r)

FinishGroup(name, f) ==
    /\ controller.running[<<"Group", <<name>>>>] > 0
    /\ IF group_objects[name].exists THEN f \in ControllerFaults ELSE f = Gone
    /\ \E r \in {GroupRunOn(controller.obj[<<"Group", <<name>>>>], name, f)} :
          /\ CommitGroup(name, r, f)
          /\ controller' = Finished(controller, <<"Group", <<name>>>>, r)

(* The watches: a change of an object is a request for it.  Objects are   *)
(* created while the cluster has no Secret and the directory no group of   *)
(* the controller's yet: what follows is the life of those objects.        *)
Observed(ref) == controller' = Schedule(controller, ref)

ControllerNext ==
    \/ \E ref \in ObjRefs : StartDispatch(ref)
    \/ \E key \in ServiceUserKeys, f \in ControllerFaults \cup {Gone} : FinishServiceUser(key, f)
    \/ \E name \in GroupNames, f \in ControllerFaults \cup {Gone} : FinishGroup(name, f)
    \/ \E key \in ServiceUserKeys, pm \in BOOLEAN, ag \in AdditionalGroupsChoices :
          clock = 0 /\ CreateServiceUser(key, pm, ag) /\ Observed(<<"ServiceUser", key>>)
    \/ \E key \in ServiceUserKeys, pm \in BOOLEAN, ag \in AdditionalGroupsChoices :
          UpdateServiceUser(key, pm, ag) /\ Observed(<<"ServiceUser", key>>)
    \/ \E key \in ServiceUserKeys : DeleteServiceUser(key) /\ Observed(<<"ServiceUser", key>>)
    \/ \E name \in GroupNames :
          nextGid = 4 /\ CreateGroupObject(name) /\ Observed(<<"Group", <<name>>>>)
    \/ \E name \in GroupNames : DeleteGroupObject(name) /\ Observed(<<"Group", <<name>>>>)

(* The runtime polls the scheduler and the reconciles in flight (the      *)
(* stream main awaits): a request that can be taken is taken, a dispatch   *)
(* in flight finishes.                                                     *)
ControllerSpec ==
    /\ Init
    /\ [][ControllerNext]_vars
    /\ \A ref \in ObjRefs : WF_vars(StartDispatch(ref))
    /\ \A key \in ServiceUserKeys :
          WF_vars(\E f \in ControllerFaults \cup {Gone} : FinishServiceUser(key, f))
    /\ \A name \in GroupNames :
          WF_vars(\E f \in ControllerFaults \cup {Gone} : FinishGroup(name, f))

-----------------------------------------------------------------------------
(* Several ServiceUsers side by side: two of one namespace, the name of    *)
(* one being the login of the other, and one of the same name in another   *)
(* namespace (names may contain dots, namespaces may not).  Their          *)
(* dispatches take turns; the login of a dispatch may fail.                *)

SideBySideKeys == {<<"apps", "gitea">>, <<"apps", "gitea.apps">>, <<"prod", "gitea">>}

SideBySideInit ==
    /\ service_users = [key \in SideBySideKeys |-> NoServiceUser]
    /\ group_objects = [name \in GroupNames |-> NoGroup]
    /\ secrets = << >>
    /\ users = << >>
    /\ groups = BuiltinGroups
    /\ nextGid = 4
    /\ clock = 0
    /\ last = Idle
    /\ controller = ControllerIdle

DispatchSideBySide(key, f) ==
    /\ service_users[key].exists
    /\ \E r \in {ServiceUserRun(key, f, GeneratedPassword(clock + 1))} :
          CommitServiceUser(key, r, f, MaxSideBySide)
    /\ UNCHANGED controller

SideBySideNext ==
    \/ \E key \in SideBySideKeys, f \in ControllerFaults : DispatchSideBySide(key, f)
    \/ \E key \in SideBySideKeys, ag \in AdditionalGroupsChoices :
          CreateServiceUser(key, FALSE, ag) /\ UNCHANGED controller
    \/ \E key \in SideBySideKeys : DeleteServiceUser(key) /\ UNCHANGED controller

SideBySideSpec == SideBySideInit /\ [][SideBySideNext]_vars

-----------------------------------------------------------------------------
(* Group objects named after groups the directory already has: one named   *)
(* after a built-in group, next to one whose group the controller is to    *)
(* create.  No Group object exists at the start, so every group of the     *)
(* directory is there before the first apply of any of them.               *)

AdoptedGroupNames == {"grafana-admins", "lldap_strict_readonly"}

AdoptionInit ==
    /\ service_users = [key \in ServiceUserKeys |-> NoServiceUser]
    /\ group_objects = [name \in AdoptedGroupNames |-> NoGroup]
    /\ secrets = << >>
    /\ users = << >>
    /\ groups = BuiltinGroups
    /\ nextGid = 4
    /\ clock = 0
    /\ last = Idle
    /\ controller = ControllerIdle

AdoptionNext ==
    \/ \E name \in AdoptedGroupNames : \E f \in GroupFaults(name) \cup {NoFault} :
          DispatchGroup(name, f)
    \/ \E name \in AdoptedGroupNames : CreateGroupObject(name) /\ UNCHANGED controller
    \/ \E name \in AdoptedGroupNames : DeleteGroupObject(name) /\ UNCHANGED controller

AdoptionSpec == AdoptionInit /\ [][AdoptionNext]_vars

-----------------------------------------------------------------------------
(* The handlers on their own: reconcile and cleanup of the Reconcile trait *)
(* are called, without the dispatcher, on the objects of the cluster as    *)
(* they are or with metadata.name or metadata.namespace left out; every    *)
(* call a handler makes may fail.                                          *)

HandlerNames == {"reconcile", "cleanup"}

HandlerInit ==
    /\ \E pm \in BOOLEAN, ag \in AdditionalGroupsChoices :
          service_users = [key \in ServiceUserKeys |->
              [NoServiceUser EXCEPT !.exists = TRUE, !.finalizer = TRUE,
                                    !.password_manager = pm, !.additional_groups = ag]]
    /\ group_objects = [name \in GroupNames |-> [NoGroup EXCEPT !.exists = TRUE, !.finalizer = TRUE]]
    /\ secrets = << >>
    /\ users = << >>
    /\ groups = BuiltinGroups
    /\ nextGid = 4
    /\ clock = 0
    /\ last = Idle
    /\ controller = ControllerIdle

(* What the metadata of the object handed over says: "" for an absent field *)
OrEmpty(o) == IF o = None THEN "" ELSE Unwrap(o)

ServiceUserHandlerRun(handler, obj, f, password) ==
    IF handler = "reconcile" THEN ServiceUser_reconcile(obj, f, password)
    ELSE ServiceUser_cleanup(obj, f)

(* The faults that name a call the handler makes on the object as it is *)
ServiceUserHandlerFaults(key, handler) ==
    UNION {Hitting(r.sites) :
              r \in {ServiceUserHandlerRun(handler, ServiceUserObj(key), NoFault,
                                           GeneratedPassword(clock + 1))}}

CallServiceUserHandler(key, handler, name, namespace, f) ==
    /\ \E r \in {ServiceUserHandlerRun(handler,
                                       [ServiceUserObj(key) EXCEPT !.name = name,
                                                                   !.namespace = namespace],
                                       f, GeneratedPassword(clock + 1))} :
          /\ r.clock <= MaxClock
          /\ service_users' = [service_users EXCEPT ![key].secret_created =
                                   IF r.status = None THEN @ ELSE Unwrap(r.status)]
          /\ secrets' = r.secrets
          /\ users' = r.users
          /\ groups' = r.groups
          /\ nextGid' = r.nextGid
          /\ clock' = r.clock
          /\ last' = [Report("ServiceUser handler", <<OrEmpty(namespace), OrEmpty(name)>>, r, f)
                         EXCEPT !.op = handler]
    /\ UNCHANGED <<group_objects, controller>>

GroupHandlerRun(handler, obj, f) ==
    IF handler = "reconcile" THEN Group_reconcile(obj, f) ELSE Group_cleanup(obj, f)

GroupHandlerFaults(name, handler) ==
    UNION {Hitting(r.sites) : r \in {GroupHandlerRun(handler, GroupObj(name), NoFault)}}

CallGroupHandler(handler, name, f) ==
    /\ \E r \in {GroupHandlerRun(handler, [name |-> name], f)} :
          /\ r.nextGid <= MaxGid + 1
          /\ users' = r.users
          /\ groups' = r.groups
          /\ nextGid' = r.nextGid
          /\ last' = [Report("Group handler", <<OrEmpty(name)>>, r, f) EXCEPT !.op = handler]
    /\ UNCHANGED <<service_users, group_objects, secrets, clock, controller>>

HandlerNext ==
    \/ \E key \in ServiceUserKeys, handler \in HandlerNames :
          \E f \in ServiceUserHandlerFaults(key, handler) \cup {NoFault},
             name \in {None, Some(key[2])}, namespace \in {None, Some(key[1])} :
              CallServiceUserHandler(key, handler, name, namespace, f)
    \/ \E gname \in GroupNames, handler \in HandlerNames :
          \E f \in GroupHandlerFaults(gname, handler) \cup {NoFault}, name \in {None, Some(gname)} :
              CallGroupHandler(handler, name, f)

HandlerSpec == HandlerInit /\ [][HandlerNext]_vars

-----------------------------------------------------------------------------
(* The handlers of the ServiceUsers side by side, on their own: reconcile  *)
(* and cleanup are called, without the dispatcher and so without the       *)
(* finalizer and the garbage collector's cascade, on two of the objects,   *)
(* once they exist; every call a handler makes may fail.                   *)

HandlerKeys == {<<"apps", "gitea">>, <<"apps", "gitea.apps">>}

CallHandlerSideBySide(key, handler, f) ==
    /\ service_users[key].exists
    /\ \E r \in {ServiceUserHandlerRun(handler, ServiceUserObj(key), f,
                                       GeneratedPassword(clock + 1))} :
          /\ r.clock <= MaxSideBySide
          /\ service_users' = [service_users EXCEPT ![key].secret_created =
                                   IF r.status = None THEN @ ELSE Unwrap(r.status)]
          /\ secrets' = r.secrets
          /\ users' = r.users
          /\ groups' = r.groups
          /\ nextGid' = r.nextGid
          /\ clock' = r.clock
          /\ last' = [Report("ServiceUser handler", key, r, f) EXCEPT !.op = handler]
    /\ UNCHANGED <<group_objects, controller>>

HandlersSideBySideNext ==
    \/ \E key \in HandlerKeys, handler \in HandlerNames :
          \E f \in ServiceUserHandlerFaults(key, handler) \cup {NoFault} :
              CallHandlerSideBySide(key, handler, f)
    \/ \E key \in HandlerKeys, ag \in AdditionalGroupsChoices :
          CreateServiceUser(key, FALSE, ag) /\ UNCHANGED controller

HandlersSideBySideSpec == SideBySideInit /\ [][HandlersSideBySideNext]_vars

-----------------------------------------------------------------------------
(* check_graphql_errors on its own: it is given every response with up to  *)
(* MaxErrors errors, with and without data.                                *)

MaxErrors == 2      \* the length of a response's errors array

MessageChoices == {"Unauthorized", "Entity not found", "Entity not found: ^gitea.apps^", "timeout"}

ErrorsChoices ==
    {None} \cup {Some(errors) : errors \in UNION {[1..n -> [message : MessageChoices]] : n \in 0..MaxErrors}}

DataChoices == {None} \cup {Some(data) : data \in {"user", "groups", "ok", "null"}}

GraphQlInit ==
    /\ service_users = [key \in ServiceUserKeys |-> NoServiceUser]
    /\ group_objects = [name \in GroupNames |-> NoGroup]
    /\ secrets = << >>
    /\ users = << >>
    /\ groups = BuiltinGroups
    /\ nextGid = 4
    /\ clock = 0
    /\ last = [kind |-> "none", response |-> GraphQlResponse(None, None), result |-> NoOut]
    /\ controller = ControllerIdle

CheckGraphQlErrors(response) ==
    /\ last' = [kind |-> "check_graphql_errors", response |-> response,
                result |-> check_graphql_errors(response)]
    /\ UNCHANGED <<service_users, group_objects, secrets, users, groups, nextGid, clock, controller>>

GraphQlNext ==
    \E errors \in ErrorsChoices, data \in DataChoices :
        CheckGraphQlErrors(GraphQlResponse(errors, data))

GraphQlSpec == GraphQlInit /\ [][GraphQlNext]_vars

-----------------------------------------------------------------------------
(* update_user_groups on its own: the directory has one user, a member of  *)
(* any of the directory's groups, and the client is asked to make it a     *)
(* member of the groups a list of names gives; every call of it may fail.  *)

MaxNeeded == 2      \* the length of the list of names update_user_groups is given

GroupNameChoices == {"lldap_admin", "lldap_password_manager", "grafana-admins", "no-such-group"}

NeededChoices == UNION {[1..n -> GroupNameChoices] : n \in 0..MaxNeeded}

TheUser == Login(<<"apps", "gitea">>)

UpdateGroupsInit ==
    /\ service_users = [key \in ServiceUserKeys |-> NoServiceUser]
    /\ group_objects = [name \in GroupNames |-> NoGroup]
    /\ secrets = << >>
    /\ \/ groups = BuiltinGroups /\ nextGid = 4
       \/ groups = BuiltinGroups @@ (4 :> "grafana-admins") /\ nextGid = 5
    /\ \E member_of \in SUBSET DOMAIN groups :
          users = TheUser :> [groups |-> member_of, password |-> None]
    /\ clock = 0
    /\ last = Idle
    /\ controller = ControllerIdle

(* lldap_client.update_user_groups(&user, &groups), user being the record  *)
(* get_user returns                                                        *)
UpdateUserGroupsRun(needed_groups, f) ==
    ReturnOk(update_user_groups(Run0, f, UserRecord(Run0, TheUser), needed_groups), NoAction)

UpdateUserGroupsFaults(needed_groups) ==
    UNION {Hitting(r.sites) : r \in {UpdateUserGroupsRun(needed_groups, NoFault)}}

CallUpdateUserGroups(needed_groups, f) ==
    /\ last = Idle
    /\ \E r \in {UpdateUserGroupsRun(needed_groups, f)} :
          /\ users' = r.users
          /\ last' = [Idle EXCEPT !.kind = "update_user_groups", !.key = needed_groups,
                                  !.res = r.res, !.error = r.error, !.reqs = r.reqs, !.fault = f]
    /\ UNCHANGED <<service_users, group_objects, secrets, groups, nextGid, clock, controller>>

UpdateGroupsNext ==
    \E needed_groups \in NeededChoices :
        \E f \in UpdateUserGroupsFaults(needed_groups) \cup {NoFault} :
            CallUpdateUserGroups(needed_groups, f)

UpdateGroupsSpec == UpdateGroupsInit /\ [][UpdateGroupsNext]_vars

-----------------------------------------------------------------------------
(* Properties *)

(* The step is a dispatch for the object `key` of kind `kind` *)
Dispatched(kind, key) == last'.kind = kind /\ last'.key = key

(* C1: for an object (ServiceUser or Group) that carries the finalizer and *)
(* a deletion timestamp, the finalizer goes only in a dispatch whose       *)
(* cleanup returned success, and a dispatch whose cleanup or whose         *)
(* finalizer-removal patch failed leaves the finalizer and the object in   *)
(* place and returns an error.                                             *)
C1_FinalizerGoesOnlyAfterCleanup ==
    [][/\ \A key \in ServiceUserKeys :
             (service_users[key].finalizer /\ service_users[key].deleting) =>
                /\ ~service_users'[key].finalizer =>
                      /\ Dispatched("ServiceUser", key)
                      /\ last'.op = "cleanup" /\ last'.handler = "ok" /\ last'.res = "ok"
                /\ (Dispatched("ServiceUser", key)
                      /\ (last'.handler # "ok" \/ last'.wrapped = "RemoveFinalizer")) =>
                      /\ service_users'[key].exists /\ service_users'[key].finalizer
                      /\ last'.handler # "panic" => last'.res = "err"
       /\ \A name \in GroupNames :
             (group_objects[name].finalizer /\ group_objects[name].deleting) =>
                /\ ~group_objects'[name].finalizer =>
                      /\ Dispatched("Group", <<name>>)
                      /\ last'.op = "cleanup" /\ last'.handler = "ok" /\ last'.res = "ok"
                /\ (Dispatched("Group", <<name>>)
                      /\ (last'.handler # "ok" \/ last'.wrapped = "RemoveFinalizer")) =>
                      /\ group_objects'[name].exists /\ group_objects'[name].finalizer
                      /\ last'.handler # "panic" => last'.res = "err"
      ]_vars

(* A cleanup of the ServiceUser has failed and the object is still there   *)
C1_Witness ==
    \E key \in ServiceUserKeys :
        /\ last.kind = "ServiceUser" /\ last.key = key
        /\ last.op = "cleanup" /\ last.wrapped = "CleanupFailed" /\ last.res = "err"
        /\ service_users[key].finalizer /\ service_users[key].deleting

(* C2: when the deletion of a ServiceUser completes (the object goes),    *)
(* the directory has no user with its login and the namespace no Secret    *)
(* with its credentials name, whatever dispatches, failures and retries    *)
(* came before.  The Secret is the one the controller creates: no one      *)
(* else writes Secrets in Spec.                                            *)
C2_NothingLeftAfterDeletion ==
    [][\A key \in ServiceUserKeys :
          (service_users[key].exists /\ ~service_users'[key].exists) =>
              /\ Login(key) \notin DOMAIN users'
              /\ SecretKey(key) \notin DOMAIN secrets'
      ]_vars

(* A cleanup has deleted the directory user and the object is gone *)
C2_Witness ==
    \E key \in ServiceUserKeys :
        /\ last.kind = "ServiceUser" /\ last.key = key
        /\ last.op = "cleanup" /\ last.res = "ok"
        /\ \E i \in 1..Len(last.events) : last.events[i] = "UserDeleted"
        /\ ~service_users[key].exists

(* The last dispatch was a ServiceUser apply for `key` that returned      *)
(* success                                                                 *)
Applied(key) ==
    /\ last.kind = "ServiceUser" /\ last.key = key
    /\ last.op = "apply" /\ last.res = "ok"

PasswordOf(secret) == Unwrap(secret.data)["password"]

(* C3: whenever a ServiceUser apply returns success, the Secret exists,    *)
(* the directory user exists, and the password registered in the          *)
(* directory is the password stored in the Secret.                         *)
C3_ApplySuccessMeansMatchingPassword ==
    \A key \in ServiceUserKeys :
        Applied(key) =>
            /\ SecretKey(key) \in DOMAIN secrets
            /\ Login(key) \in DOMAIN users
            /\ users[Login(key)].password = Some(PasswordOf(secrets[SecretKey(key)]))

(* The names apply is to make the user a member of *)
NeededNames(key) ==
    Range(service_users[key].additional_groups) \cup {RoleGroup(service_users[key].password_manager)}

C5_SecondApplyChangesNothing ==
    [][\A key \in ServiceUserKeys :
          (Applied(key) /\ Dispatched("ServiceUser", key) /\ last'.op = "apply") =>
              /\ secrets' = secrets
              /\ DOMAIN users' = DOMAIN users
              /\ users'[Login(key)].groups = users[Login(key)].groups
              /\ \A i \in 1..Len(last'.events) :
                    last'.events[i] \notin {"SecretCreated", "UserCreated"}
              /\ \A i \in 1..Len(last'.reqs) :
                    last'.reqs[i].op \notin {"create_secret", "create_user", "add_user_to_group",
                                            "remove_user_from_group"}
      ]_vars

(* An apply has found everything in place: its requests are those of a     *)
(* run that creates and changes nothing                                    *)
C5_Witness ==
    \E key \in ServiceUserKeys :
        /\ Applied(key)
        /\ last.events = << >>
        /\ [i \in 1..Len(last.reqs) |-> last.reqs[i].op]
              = <<"entry", "replace_secret", "login", "get_user", "get_groups",
                  "register_start", "register_finish", "patch_status">>
        /\ service_users[key].secret_created = secrets[SecretKey(key)].creation_timestamp

(* C6: after a successful apply the ServiceUser has its Secret, owned by   *)
(* it and with the username field equal to the login, whatever Secret      *)
(* was there before the first apply.                                       *)
C6_SecretOwnedWithUsername ==
    \A key \in ServiceUserKeys :
        Applied(key) =>
            /\ SecretKey(key) \in DOMAIN secrets
            /\ Owns(secrets[SecretKey(key)], key)
            /\ secrets[SecretKey(key)].data # None
            /\ "username" \in DOMAIN Unwrap(secrets[SecretKey(key)].data)
            /\ Unwrap(secrets[SecretKey(key)].data)["username"] = Login(key)

(* C7: a successful Group apply leaves exactly one directory group with    *)
(* the object's name: it creates the group and emits GroupCreated when     *)
(* there was none, and creates and emits nothing when there was one.       *)
C7_GroupApplyCreatesOnce ==
    [][\A name \in GroupNames :
          (Dispatched("Group", <<name>>) /\ last'.op = "apply" /\ last'.res = "ok") =>
              /\ Cardinality({g \in DOMAIN groups' : groups'[g] = name}) = 1
              /\ IF \E g \in DOMAIN groups : groups[g] = name
                 THEN /\ groups' = groups
                      /\ last'.events = << >>
                      /\ \A i \in 1..Len(last'.reqs) : last'.reqs[i].op # "create_group"
                 ELSE /\ DOMAIN groups' = DOMAIN groups \cup {nextGid}
                      /\ last'.events = <<"GroupCreated">>
      ]_vars

(* A Group apply has found its group in the directory and done nothing *)
C7_Witness ==
    \E name \in GroupNames :
        /\ last.kind = "Group" /\ last.key = <<name>>
        /\ last.op = "apply" /\ last.res = "ok" /\ last.events = << >>
        /\ \E g \in DOMAIN groups : groups[g] = name

(* C8: a dispatch in which the publication of an event fails still         *)
(* returns success.                                                        *)
C8_EventFailureDoesNotFailDispatch ==
    last.fault.at \in EventCalls => last.res = "ok"

(* C9: no dispatch ends by aborting: each returns success or an error.     *)
C9_NoDispatchAborts ==
    last.res \in {"ok", "err"}

(* The last dispatch was an apply for `key` that an unreachable directory *)
(* made fail                                                               *)
FailedOnOutage(key) ==
    /\ last.kind = "ServiceUser" /\ last.key = key
    /\ last.op = "apply" /\ last.fault \in OutageFaults

(* What a failure-free first apply leaves: the first Secret with the      *)
(* first generated password, one directory user with the needed groups     *)
(* and that password, and the status                                       *)
Converged(key) ==
    /\ DOMAIN secrets = {SecretKey(key)}
    /\ secrets[SecretKey(key)].creation_timestamp = Some(1)
    /\ PasswordOf(secrets[SecretKey(key)]) = GeneratedPassword(1)
    /\ Owns(secrets[SecretKey(key)], key)
    /\ DOMAIN users = {Login(key)}
    /\ users[Login(key)].groups = {g \in DOMAIN groups : groups[g] \in NeededNames(key)}
    /\ users[Login(key)].password = Some(GeneratedPassword(1))
    /\ service_users[key].secret_created = Some(1)

(* C10: an apply that fails because the directory is unreachable returns   *)
(* an error and is requeued; the Secret its first attempt created is       *)
(* never replaced; and a retried apply eventually succeeds with the state  *)
(* a failure-free first apply leaves.                                      *)
C10_OutageIsRetriedToConvergence ==
    /\ [](\A key \in ServiceUserKeys :
             FailedOnOutage(key) => last.res = "err" /\ last.action = Action_requeue(5))
    /\ [][\A k \in DOMAIN secrets : k \in DOMAIN secrets' /\ secrets'[k] = secrets[k]]_vars
    /\ \A key \in ServiceUserKeys :
          FailedOnOutage(key) ~> (Applied(key) /\ Converged(key))

(* A retry has succeeded: the apply found the Secret of an earlier attempt *)
(* and still had the directory user to create                              *)
C10_Witness ==
    \E key \in ServiceUserKeys :
        /\ Applied(key) /\ Converged(key)
        /\ \E i \in 1..Len(last.reqs) : last.reqs[i].op = "replace_secret"
        /\ \E i \in 1..Len(last.reqs) : last.reqs[i].op = "create_user"

(* The ops of the requests the last dispatch issued, in order *)
Ops(l) == [i \in 1..Len(l.reqs) |-> l.reqs[i].op]

(* The step is a ServiceUser cleanup for `key` in which delete_user was    *)
(* sent and answered by the directory                                      *)
DeleteUserAnswered(key) ==
    /\ Dispatched("ServiceUser", key) /\ last'.op = "cleanup"
    /\ Contains(Ops(last'), "delete_user") /\ last'.fault.at # "delete_user"

(* C11: when ServiceUser cleanup runs and the directory answers deleteUser *)
(* with the error "Entity not found: ^No such user: '<login>'^", cleanup   *)
(* publishes UserNotFound (a Warning) and nothing else, returns success,   *)
(* and the finalizer is removed; when deleteUser succeeds, cleanup         *)
(* publishes UserDeleted and returns success.  (The publication and the    *)
(* finalizer patch are calls of their own: cleanup has recorded the event  *)
(* when the publication went through, the finalizer is gone when the patch *)
(* went through.)                                                          *)
C11_NotFoundOnCleanupIsSuccess ==
    [][\A key \in ServiceUserKeys :
          DeleteUserAnswered(key) =>
              IF check_graphql_errors(DeleteUserResponse([users |-> users], Login(key))).error.message
                    = "Entity not found: ^No such user: '" \o Login(key) \o "'^"
              THEN /\ Len(last'.reqs) >= 3
                   /\ SubSeq(Ops(last'), 1, 3) = <<"login", "delete_user", "user_not_found">>
                   /\ users' = users
                   /\ last'.fault.at # "user_not_found" =>
                         /\ last'.events = <<"UserNotFound">> /\ last'.types = <<"Warning">>
                         /\ last'.handler = "ok"
                         /\ Ops(last') = <<"login", "delete_user", "user_not_found", "remove_finalizer">>
                   /\ last'.fault = NoFault =>
                         /\ last'.res = "ok" /\ last'.action = Action_await_change
                         /\ ~service_users'[key].exists /\ ~service_users'[key].finalizer
              ELSE /\ Len(last'.reqs) >= 3
                   /\ SubSeq(Ops(last'), 1, 3) = <<"login", "delete_user", "user_deleted">>
                   /\ Login(key) \in DOMAIN users /\ Login(key) \notin DOMAIN users'
                   /\ last'.fault.at # "user_deleted" =>
                         /\ last'.events = <<"UserDeleted">> /\ last'.types = <<"Normal">>
                         /\ last'.handler = "ok"
                   /\ last'.fault = NoFault =>
                         /\ last'.res = "ok" /\ last'.action = Action_await_change
                         /\ ~service_users'[key].exists
      ]_vars

(* A cleanup has found no user in the directory, recorded the warning and  *)
(* let the object go                                                       *)
C11_Witness ==
    \E key \in ServiceUserKeys :
        /\ last.kind = "ServiceUser" /\ last.key = key
        /\ last.op = "cleanup" /\ last.res = "ok"
        /\ last.events = <<"UserNotFound">> /\ last.types = <<"Warning">>
        /\ ~service_users[key].exists

(* C12: the requeue decision depends only on the outcome of the dispatch:  *)
(* every error it returns, of whatever kind, is requeued after 5 seconds;  *)
(* every successful apply after 3600 seconds; every successful cleanup     *)
(* and every dispatch that installed the finalizer awaits a change.        *)
C12_RequeueDependsOnlyOnOutcome ==
    last.kind \in {"ServiceUser", "Group"} =>
        /\ last.res = "err" => last.action = Action_requeue(5)
        /\ (last.op = "apply" /\ last.res = "ok") => last.action = Action_requeue(3600)
        /\ (last.op \in {"cleanup", "add_finalizer"} /\ last.res = "ok") =>
              last.action = Action_await_change

(* A dispatch has failed at a cluster call, not at the directory, and is   *)
(* requeued like any other                                                 *)
C12_Witness ==
    /\ last.kind = "ServiceUser" /\ last.op = "apply"
    /\ last.res = "err" /\ last.error.kind = "Commit"
    /\ last.action = Action_requeue(5)

(* The calls of a dispatch that returned an error: none, when no call was  *)
(* hit or when the one hit was the finish request answered with an error   *)
(* status, which update_password does not take for an error                *)
NoCallFailed(l) == l.fault = NoFault \/ l.fault = [at |-> "finish", how |-> "rejected", k |-> 0]

(* s is a subsequence of t *)
RECURSIVE IsSubsequence(_, _)
IsSubsequence(s, t) ==
    IF s = << >> THEN TRUE
    ELSE IF t = << >> THEN FALSE
    ELSE IF Head(s) = Head(t) THEN IsSubsequence(Tail(s), Tail(t))
    ELSE IsSubsequence(s, Tail(t))

C14_OneDispatchInFlightPerObject ==
    \A ref \in ObjRefs : controller.running[ref] <= 1

(* A ServiceUser dispatch and a Group dispatch are in flight at once *)
C14_Witness ==
    /\ \E key \in ServiceUserKeys : controller.running[<<"ServiceUser", key>>] = 1
    /\ \E name \in GroupNames : controller.running[<<"Group", <<name>>>>] = 1

(* C15: the changes of an object observed while a dispatch of it is in     *)
(* flight, however many, leave exactly one request for it with the         *)
(* scheduler (none is lost, they do not add up); the request is taken      *)
(* only when no dispatch of the object is in flight, so the further        *)
(* dispatch starts after the one in flight has finished; and it is taken   *)
(* eventually.                                                             *)
C15_ChangesInFlightCoalesce ==
    /\ [](\A ref \in ObjRefs :
             /\ controller.scheduled[ref] <= 1
             /\ controller.changes[ref] >= 1 => controller.scheduled[ref] = 1)
    /\ [][\A ref \in ObjRefs :
             controller'.scheduled[ref] < controller.scheduled[ref] =>
                 /\ controller.running[ref] = 0
                 /\ controller'.scheduled[ref] = 0
                 /\ controller'.running[ref] <= 1]_vars
    /\ \A ref \in ObjRefs :
          (controller.changes[ref] >= 1) ~> (controller.changes[ref] = 0)

(* A ServiceUser has changed more than once while its dispatch is in       *)
(* flight, and one request waits                                           *)
C15_Witness ==
    \E key \in ServiceUserKeys :
        /\ controller.running[<<"ServiceUser", key>>] = 1
        /\ controller.changes[<<"ServiceUser", key>>] = MaxChanges
        /\ controller.scheduled[<<"ServiceUser", key>>] = 1

(* The last dispatch was a cleanup of the object that returned success *)
CleanedUp(kind, key) ==
    /\ last.kind = kind /\ last.key = key
    /\ last.op = "cleanup" /\ last.res = "ok"

(* C16: after any sequence of applies and cleanups of one ServiceUser (or  *)
(* Group), what the directory holds for it depends on the last successful  *)
(* operation alone: after an apply the user exists with the declared       *)
(* membership and the Secret's password (the group exists), after a        *)
(* cleanup the user (the group) does not exist.                            *)
C16_LastOperationDecides ==
    /\ \A key \in ServiceUserKeys :
          /\ Applied(key) =>
                /\ Login(key) \in DOMAIN users
                /\ users[Login(key)].groups = {g \in DOMAIN groups : groups[g] \in NeededNames(key)}
                /\ SecretKey(key) \in DOMAIN secrets
                /\ users[Login(key)].password = Some(PasswordOf(secrets[SecretKey(key)]))
          /\ CleanedUp("ServiceUser", key) => Login(key) \notin DOMAIN users
    /\ \A name \in GroupNames :
          /\ (last.kind = "Group" /\ last.key = <<name>> /\ last.op = "apply" /\ last.res = "ok") =>
                Cardinality({g \in DOMAIN groups : groups[g] = name}) = 1
          /\ CleanedUp("Group", <<name>>) => \A g \in DOMAIN groups : groups[g] # name

(* The same without the password: what holds of the code as it is *)
C16_LastOperationDecidesButForThePassword ==
    /\ \A key \in ServiceUserKeys :
          /\ Applied(key) =>
                /\ Login(key) \in DOMAIN users
                /\ users[Login(key)].groups = {g \in DOMAIN groups : groups[g] \in NeededNames(key)}
                /\ SecretKey(key) \in DOMAIN secrets
          /\ CleanedUp("ServiceUser", key) => Login(key) \notin DOMAIN users
    /\ \A name \in GroupNames :
          /\ (last.kind = "Group" /\ last.key = <<name>> /\ last.op = "apply" /\ last.res = "ok") =>
                Cardinality({g \in DOMAIN groups : groups[g] = name}) = 1
          /\ CleanedUp("Group", <<name>>) => \A g \in DOMAIN groups : groups[g] # name

(* The step is a successful apply of `key`, a ServiceUser that had been    *)
(* applied (its status is set) and whose Secret has gone since             *)
AppliedAfterSecretLoss(key) ==
    /\ service_users[key].secret_created # None
    /\ SecretKey(key) \notin DOMAIN secrets
    /\ Dispatched("ServiceUser", key) /\ last'.op = "apply" /\ last'.res = "ok"

(* C17: when the owned Secret of a live ServiceUser has been deleted, the  *)
(* next successful apply creates a new Secret with a freshly generated     *)
(* password, emits SecretCreated, registers the new password in the        *)
(* directory and patches status.secretCreated to the new Secret's          *)
(* creation timestamp.                                                     *)
C17_DeletedSecretIsRecreatedAndRegistered ==
    [][\A key \in ServiceUserKeys :
          AppliedAfterSecretLoss(key) =>
              /\ SecretKey(key) \in DOMAIN secrets'
              /\ Owns(secrets'[SecretKey(key)], key)
              /\ PasswordOf(secrets'[SecretKey(key)]) = GeneratedPassword(clock + 1)
              /\ users[Login(key)].password # Some(GeneratedPassword(clock + 1))
              /\ Contains(last'.events, "SecretCreated")
              /\ users'[Login(key)].password = Some(GeneratedPassword(clock + 1))
              /\ secrets'[SecretKey(key)].creation_timestamp = Some(clock + 1)
              /\ service_users'[key].secret_created = Some(clock + 1)
              /\ service_users'[key].secret_created # service_users[key].secret_created
      ]_vars

(* The same without the registration: what holds of the code as it is *)
C17_DeletedSecretIsRecreated ==
    [][\A key \in ServiceUserKeys :
          AppliedAfterSecretLoss(key) =>
              /\ SecretKey(key) \in DOMAIN secrets'
              /\ Owns(secrets'[SecretKey(key)], key)
              /\ PasswordOf(secrets'[SecretKey(key)]) = GeneratedPassword(clock + 1)
              /\ users[Login(key)].password # Some(GeneratedPassword(clock + 1))
              /\ Contains(last'.events, "SecretCreated")
              /\ secrets'[SecretKey(key)].creation_timestamp = Some(clock + 1)
              /\ service_users'[key].secret_created = Some(clock + 1)
              /\ service_users'[key].secret_created # service_users[key].secret_created
      ]_vars

(* The requests that go to the directory's GraphQL and OPAQUE endpoints *)
DirectoryOps ==
    {"get_user", "create_user", "delete_user", "get_groups", "create_group", "delete_group",
     "add_user_to_group", "remove_user_from_group", "register_start", "register_finish"}

(* C18: every dispatch (apply or cleanup, of either kind) that sends the   *)
(* directory a GraphQL or OPAQUE request has made its own simple-login,    *)
(* exactly once and before all of them; no dispatch logs in twice, and a   *)
(* dispatch whose login fails sends the directory nothing else.            *)
C18_OneLoginBeforeDirectoryRequests ==
    /\ Cardinality({i \in 1..Len(last.reqs) : Ops(last)[i] = "login"}) <= 1
    /\ \A i \in 1..Len(last.reqs) :
          Ops(last)[i] \in DirectoryOps => \E j \in 1..(i - 1) : Ops(last)[j] = "login"
    /\ last.op \in {"apply", "cleanup"} /\ last.handler = "ok" => Contains(Ops(last), "login")
    /\ last.fault.at = "login" =>
          /\ Contains(Ops(last), "login")
          /\ \A i \in 1..Len(last.reqs) : Ops(last)[i] \notin DirectoryOps
          /\ last.res = "err"

(* An apply right after an apply: each has logged in for itself *)
C18_Witness ==
    \E key \in ServiceUserKeys :
        /\ Applied(key)
        /\ Ops(last) = <<"entry", "replace_secret", "login", "get_user", "get_groups",
                         "register_start", "register_finish", "patch_status">>
        /\ users[Login(key)].password = Some(GeneratedPassword(1))

(* What the dispatcher does with an object that has the finalizer or not   *)
(* (has) and a deletion timestamp or not (deleting), l being what the      *)
(* dispatch left                                                           *)
DispatchedByFinalizerState(has, deleting, l) ==
    /\ (~has /\ ~deleting) =>
          /\ l.op = "add_finalizer" /\ l.handler = "none"
          /\ l.reqs = <<[op |-> "add_finalizer", arg |-> 0, name |-> "lldap.huizinga.dev"]>>
          /\ l.events = << >>
          /\ l.res = "ok" => l.action = Action_await_change
    /\ l.op = "apply" => (has /\ ~deleting)
    /\ l.op = "cleanup" => (has /\ deleting)
    /\ l.handler # "none" => l.op \in {"apply", "cleanup"}

(* C19: for an object without the controller's finalizer and without a     *)
(* deletion timestamp the dispatcher only adds the finalizer               *)
(* "lldap.huizinga.dev" and returns await-change, calling neither apply    *)
(* nor cleanup (Secrets and directory stay as they are); apply runs only   *)
(* on objects that carry the finalizer and no deletion timestamp, cleanup  *)
(* only on objects that carry both.                                        *)
C19_FinalizerFirst ==
    [][/\ \A key \in ServiceUserKeys :
             Dispatched("ServiceUser", key) =>
                /\ DispatchedByFinalizerState(service_users[key].finalizer,
                                              service_users[key].deleting, last')
                /\ (~service_users[key].finalizer /\ ~service_users[key].deleting) =>
                      /\ <<secrets', users', groups'>> = <<secrets, users, groups>>
                      /\ service_users'[key].finalizer = (last'.res = "ok")
       /\ \A name \in GroupNames :
             Dispatched("Group", <<name>>) =>
                /\ DispatchedByFinalizerState(group_objects[name].finalizer,
                                              group_objects[name].deleting, last')
                /\ (~group_objects[name].finalizer /\ ~group_objects[name].deleting) =>
                      /\ <<secrets', users', groups'>> = <<secrets, users, groups>>
                      /\ group_objects'[name].finalizer = (last'.res = "ok")
      ]_vars

(* A new ServiceUser has got its finalizer and nothing else has happened *)
C19_Witness ==
    \E key \in ServiceUserKeys :
        /\ last.kind = "ServiceUser" /\ last.key = key
        /\ last.op = "add_finalizer" /\ last.res = "ok"
        /\ service_users[key].finalizer /\ ~service_users[key].deleting
        /\ secrets = << >> /\ users = << >>

(* The place of each call in ServiceUser apply, by the name a request is   *)
(* logged under or the name a fault gives a client-side step               *)
StepOrder ==
    <<{"entry"}, {"commit", "create_secret", "replace_secret"}, {"secret_created"}, {"login"},
      {"get_user"}, {"create_user"}, {"user_created"}, {"get_groups"},
      {"remove_user_from_group"}, {"add_user_to_group"}, {"start_registration"},
      {"start", "register_start"}, {"finish_registration"}, {"finish", "register_finish"},
      {"patch_status"}>>

Rank(op) == CHOOSE n \in 1..Len(StepOrder) : op \in StepOrder[n]

(* The steps every apply that gets as far as `op` has made before it *)
MadeBefore(op) ==
    {n \in {Rank("entry"), Rank("commit"), Rank("login"), Rank("get_user"), Rank("get_groups"),
            Rank("register_start"), Rank("register_finish")} : n < Rank(op)}

C21_SecretCreatedIffInsertedAndCommitted ==
    [][\A key \in ServiceUserKeys :
          (Dispatched("ServiceUser", key) /\ last'.op = "apply") =>
              /\ Contains(Ops(last'), "secret_created")
                    <=> (Contains(Ops(last'), "create_secret") /\ last'.fault.at # "commit")
              /\ Contains(Ops(last'), "secret_created")
                    <=> (SecretKey(key) \notin DOMAIN secrets /\ SecretKey(key) \in DOMAIN secrets')
              /\ \A i \in 1..Len(last'.reqs) :
                    Ops(last')[i] = "secret_created" => (i > 1 /\ Ops(last')[i - 1] = "create_secret")
              /\ Cardinality({i \in 1..Len(last'.reqs) : Ops(last')[i] = "secret_created"}) <= 1
              /\ Contains(last'.events, "SecretCreated")
                    <=> (Contains(Ops(last'), "secret_created") /\ last'.fault.at # "secret_created")
              /\ (SecretKey(key) \in DOMAIN secrets \/ last'.fault.at = "commit") =>
                    /\ ~Contains(last'.events, "SecretCreated")
                    /\ ~Contains(Ops(last'), "secret_created")
      ]_vars

(* An apply has created the Secret, sent the event and failed afterwards   *)
C21_Witness ==
    \E key \in ServiceUserKeys :
        /\ last.kind = "ServiceUser" /\ last.key = key /\ last.op = "apply"
        /\ last.res = "err" /\ last.fault.at = "login"
        /\ last.events = <<"SecretCreated">>
        /\ SubSeq(Ops(last), 1, 3) = <<"entry", "create_secret", "secret_created">>
        /\ SecretKey(key) \in DOMAIN secrets

(* The name a request of the call `at` is logged under *)
OpOf(at) ==
    IF at = "start" THEN "register_start" ELSE IF at = "finish" THEN "register_finish" ELSE at

(* The fault is an error of a directory call: a GraphQL error, a transport *)
(* error, or a failed client-side OPAQUE step                              *)
DirectoryError(f) ==
    /\ f.at \in {"login", "start", "finish", "start_registration", "finish_registration"}
                  \cup GraphQlCalls \cup MembershipCalls
    /\ f.how \in {"transport", "graphql", "other_entity", "client"}

Named(l, op) == {l.reqs[i].arg : i \in {j \in 1..Len(l.reqs) : l.reqs[j].op = op}}

(* The ids of the directory's groups that carry one of the names *)
DesiredIds(needed_groups) == {g \in DOMAIN groups : groups[g] \in Range(needed_groups)}

(* C23: update_user_groups(user, desired) issues remove_user_from_group    *)
(* for exactly the ids in user.groups that are not ids of desired existing *)
(* groups and add_user_to_group for exactly the ids of desired existing    *)
(* groups that are not in user.groups: it issues no mutation when the      *)
(* membership is the desired one already, never removes a desired group    *)
(* and never adds one the user has.  (A call that fails ends the run: the  *)
(* ids named up to there are among these.)                                 *)
C23_RemovesAndAddsExactlyTheDifference ==
    [][last'.kind = "update_user_groups" =>
          /\ Named(last', "remove_user_from_group")
                \subseteq users[TheUser].groups \ DesiredIds(last'.key)
          /\ Named(last', "add_user_to_group")
                \subseteq DesiredIds(last'.key) \ users[TheUser].groups
          /\ last'.fault = NoFault =>
                /\ last'.res = "ok"
                /\ Named(last', "remove_user_from_group")
                      = users[TheUser].groups \ DesiredIds(last'.key)
                /\ Named(last', "add_user_to_group")
                      = DesiredIds(last'.key) \ users[TheUser].groups
                /\ users'[TheUser].groups = DesiredIds(last'.key)
                /\ users[TheUser].groups = DesiredIds(last'.key) => Ops(last') = <<"get_groups">>
      ]_vars

(* A call has taken the user out of one group and put it into another *)
C23_Witness ==
    /\ last.kind = "update_user_groups" /\ last.res = "ok"
    /\ Ops(last) = <<"get_groups", "remove_user_from_group", "add_user_to_group">>
    /\ last.reqs[2].arg # last.reqs[3].arg
    /\ users[TheUser].groups = {last.reqs[3].arg}

(* C24: once the Secret "<name>-lldap-credentials" exists, no apply or     *)
(* cleanup changes its password or username: a dispatch leaves the data of *)
(* a Secret it finds as they are, and writes a password only into the      *)
(* Secret it creates where there was none, which is the password the       *)
(* generator returned then; so every Secret there is carries the password  *)
(* generated at its creation, and the object's login.                      *)
C24_PasswordOfAnExistingSecretStays ==
    /\ [][\A key \in ServiceUserKeys :
             Dispatched("ServiceUser", key) =>
                /\ (SecretKey(key) \in DOMAIN secrets /\ SecretKey(key) \in DOMAIN secrets') =>
                      /\ secrets'[SecretKey(key)] = secrets[SecretKey(key)]
                      /\ clock' = clock
                      /\ ~Contains(Ops(last'), "create_secret")
                /\ (SecretKey(key) \notin DOMAIN secrets /\ SecretKey(key) \in DOMAIN secrets') =>
                      /\ last'.op = "apply" /\ Contains(Ops(last'), "create_secret")
                      /\ PasswordOf(secrets'[SecretKey(key)]) = GeneratedPassword(clock + 1)
                      /\ secrets'[SecretKey(key)].creation_timestamp = Some(clock + 1)
                /\ clock' # clock => SecretKey(key) \notin DOMAIN secrets
         ]_vars
    /\ [](\A key \in ServiceUserKeys :
             SecretKey(key) \in DOMAIN secrets =>
                /\ PasswordOf(secrets[SecretKey(key)])
                      = GeneratedPassword(Unwrap(secrets[SecretKey(key)].creation_timestamp))
                /\ Unwrap(secrets[SecretKey(key)].data)["username"] = Login(key))

(* An apply has found the second Secret of the object, created after the   *)
(* first was deleted, and left it with the password of its creation        *)
C24_Witness ==
    \E key \in ServiceUserKeys :
        /\ Applied(key) /\ Contains(Ops(last), "replace_secret")
        /\ SecretKey(key) \in DOMAIN secrets
        /\ secrets[SecretKey(key)].creation_timestamp = Some(2)
        /\ PasswordOf(secrets[SecretKey(key)]) = GeneratedPassword(2)

(* The Secret of `key` exists and has data without a password field *)
PasswordRemoved(ss, key) ==
    /\ SecretKey(key) \in DOMAIN ss
    /\ ss[SecretKey(key)].data # None
    /\ "password" \notin DOMAIN Unwrap(ss[SecretKey(key)].data)

(* C25: when a third party has removed the password field of an existing   *)
(* Secret, the next apply commits the Secret it found as it is and         *)
(* generates no password: the Secret has none afterwards either.  A        *)
(* dispatch generates a password only when there is no Secret of that      *)
(* name, so only after the Secret itself has been deleted.                 *)
C25_RemovedPasswordIsNotRegenerated ==
    [][\A key \in ServiceUserKeys :
          Dispatched("ServiceUser", key) =>
              /\ (PasswordRemoved(secrets, key) /\ last'.op = "apply") =>
                    /\ SubSeq(Ops(last'), 1, 2) = <<"entry", "replace_secret">>
                    /\ ~Contains(Ops(last'), "create_secret")
                    /\ ~Contains(last'.events, "SecretCreated")
                    /\ secrets' = secrets
                    /\ clock' = clock
                    /\ PasswordRemoved(secrets', key)
              /\ (clock' # clock \/ Contains(Ops(last'), "create_secret")) =>
                    /\ SecretKey(key) \notin DOMAIN secrets
                    /\ PasswordOf(secrets'[SecretKey(key)]) = GeneratedPassword(clock + 1)
      ]_vars

(* An apply has found the Secret the controller created, without its       *)
(* password, and committed it as it was                                    *)
C25_Witness ==
    \E key \in ServiceUserKeys :
        /\ last.kind = "ServiceUser" /\ last.key = key /\ last.op = "apply"
        /\ Contains(Ops(last), "replace_secret")
        /\ PasswordRemoved(secrets, key)
        /\ Owns(secrets[SecretKey(key)], key)
        /\ Unwrap(secrets[SecretKey(key)].data)["username"] = Login(key)

(* The error that names the first metadata field the object lacks *)
MissingObjectKey(name, namespace) ==
    [kind |-> "MissingObjectKey",
     message |-> IF name = "" THEN ".metadata.name" ELSE ".metadata.namespace"]

(* C26: called on an object without metadata.name or metadata.namespace,   *)
(* ServiceUser apply and cleanup (Group apply and cleanup: without         *)
(* metadata.name) return MissingObjectKey naming the missing field, the    *)
(* name when both are missing, before any side effect: no Secret is read   *)
(* or written, no login or request goes to the directory, no event is      *)
(* sent, no status patched.                                                *)
C26_MissingKeyBeforeAnySideEffect ==
    [][/\ (last'.kind = "ServiceUser handler" /\ "" \in Range(last'.key)) =>
             /\ last'.res = "err"
             /\ last'.error = MissingObjectKey(last'.key[2], last'.key[1])
             /\ last'.reqs = << >> /\ last'.events = << >> /\ ~last'.patched
             /\ UNCHANGED <<service_users, group_objects, secrets, users, groups, nextGid, clock>>
       /\ (last'.kind = "Group handler" /\ "" \in Range(last'.key)) =>
             /\ last'.res = "err"
             /\ last'.error = MissingObjectKey(last'.key[1], "")
             /\ last'.reqs = << >> /\ last'.events = << >> /\ ~last'.patched
             /\ UNCHANGED <<service_users, group_objects, secrets, users, groups, nextGid, clock>>
      ]_vars

(* A cleanup called on a ServiceUser without namespace has returned the    *)
(* error while the Secret and the directory user are there                 *)
C26_Witness ==
    /\ last.kind = "ServiceUser handler" /\ last.op = "cleanup"
    /\ last.key[1] = "" /\ last.key[2] # ""
    /\ last.error = [kind |-> "MissingObjectKey", message |-> ".metadata.namespace"]
    /\ secrets # << >> /\ users # << >>

(* The places of the requests `op` among the requests of the last dispatch *)
Places(l, op) == {i \in 1..Len(l.reqs) : l.reqs[i].op = op}

(* C27: update_password runs the registration as start request, start     *)
(* response, finish request: the finish request is sent only after the     *)
(* start request was answered and the client-side finish_registration      *)
(* succeeded, right after the start request, once, and carries the server  *)
(* data the directory answered that start request with; when the client's  *)
(* start_registration, the start exchange or the client's                  *)
(* finish_registration fails, update_password returns an error and sends   *)
(* no finish request.                                                      *)
C27_RegistrationStartThenFinish ==
    \A key \in ServiceUserKeys :
        (last.kind = "ServiceUser" /\ last.key = key /\ last.op = "apply") =>
            /\ Cardinality(Places(last, "register_start")) <= 1
            /\ Cardinality(Places(last, "register_finish")) <= 1
            /\ \A j \in Places(last, "register_finish") :
                  /\ j > 1 /\ last.reqs[j - 1].op = "register_start"
                  /\ last.reqs[j - 1].name = Login(key)
                  /\ last.reqs[j].name = ServerData(last.reqs[j - 1].name)
                  /\ last.fault.at \notin {"start_registration", "start", "finish_registration"}
            /\ last.fault.at \in {"start_registration", "start", "finish_registration"} =>
                  /\ last.res = "err"
                  /\ last.error.kind = IF last.fault.at = "start" THEN "Reqwest" ELSE "Authentication"
                  /\ Places(last, "register_finish") = {}
                  /\ (Places(last, "register_start") = {}) <=> (last.fault.at = "start_registration")
            /\ (Places(last, "register_start") # {}
                  /\ last.fault.at \notin {"start", "finish_registration"}) =>
                  Places(last, "register_finish") # {}

(* An apply has registered the password of its user: the finish request    *)
(* followed the start request and the directory has set the password       *)
C27_Witness ==
    \E key \in ServiceUserKeys :
        /\ Applied(key) /\ last.fault = NoFault
        /\ \E j \in Places(last, "register_finish") :
              /\ last.reqs[j - 1].op = "register_start"
              /\ last.reqs[j].name = ServerData(Login(key))
        /\ users[Login(key)].password = Some(PasswordOf(secrets[SecretKey(key)]))

(* The step is a call of Group cleanup on the Group object `name` *)
GroupCleanupCalled(name) ==
    last'.kind = "Group handler" /\ last'.op = "cleanup" /\ last'.key = <<name>>

(* C28: Group cleanup lists the directory's groups; if one carries the     *)
(* object's name it deletes that group, by its id, and sends GroupDeleted; *)
(* if none does it changes nothing in the directory and sends no event;    *)
(* either way it returns await-change; and a cleanup that follows a        *)
(* successful one finds no group and does nothing.  (With a call that      *)
(* fails, cleanup still deletes no other group and sends the event only    *)
(* after the deletion.)                                                    *)
C28_GroupCleanupDeletesTheNamedGroup ==
    [][\A name \in GroupNames :
          GroupCleanupCalled(name) =>
              /\ \A i \in Places(last', "delete_group") :
                    /\ last'.reqs[i].arg \in DOMAIN groups
                    /\ groups[last'.reqs[i].arg] = name
                    /\ Ops(last')[i - 1] = "get_groups"
              /\ \A g \in DOMAIN groups : groups[g] # name => (g \in DOMAIN groups' /\ groups'[g] = groups[g])
              /\ DOMAIN groups' \subseteq DOMAIN groups
              /\ Contains(last'.events, "GroupDeleted") =>
                    (Places(last', "delete_group") # {} /\ \A g \in DOMAIN groups' : groups'[g] # name)
              /\ last'.fault = NoFault =>
                    /\ last'.res = "ok" /\ last'.action = Action_await_change
                    /\ \A g \in DOMAIN groups' : groups'[g] # name
                    /\ IF \E g \in DOMAIN groups : groups[g] = name
                       THEN /\ Ops(last') = <<"login", "get_groups", "delete_group", "group_deleted">>
                            /\ last'.events = <<"GroupDeleted">>
                            /\ DOMAIN groups' = {g \in DOMAIN groups : groups[g] # name}
                       ELSE /\ Ops(last') = <<"login", "get_groups">>
                            /\ last'.events = << >>
                            /\ <<groups', users'>> = <<groups, users>>
              /\ (last.kind = "Group handler" /\ last.op = "cleanup" /\ last.key = <<name>>
                     /\ last.res = "ok") =>
                    /\ Places(last', "delete_group") = {}
                    /\ last'.events = << >>
                    /\ <<groups', users'>> = <<groups, users>>
                    /\ last'.fault = NoFault => Ops(last') = <<"login", "get_groups">>
      ]_vars

(* A cleanup has found no group of the name, the group created for it     *)
(* having been deleted, and done nothing                                   *)
C28_Witness ==
    \E name \in GroupNames :
        /\ last.kind = "Group handler" /\ last.op = "cleanup" /\ last.key = <<name>>
        /\ last.res = "ok" /\ last.action = Action_await_change
        /\ Ops(last) = <<"login", "get_groups">>
        /\ nextGid = 5 /\ DOMAIN groups = {1, 2, 3}

(* C29: for every GraphQL response, if its errors array is present and     *)
(* not empty the client returns a GraphQl error that carries the first     *)
(* entry, whatever data the response has; it returns the response's data   *)
(* only when errors is absent or empty.                                    *)
C29_FirstErrorWinsOverData ==
    last.kind = "check_graphql_errors" =>
        /\ (last.response.errors # None /\ Len(Unwrap(last.response.errors)) > 0) =>
              /\ last.result.tag = "Err"
              /\ last.result.error
                    = [kind |-> "GraphQl", message |-> Unwrap(last.response.errors)[1].message]
              /\ last.result.data = None
        /\ last.result.tag = "Ok" =>
              /\ last.response.errors = None \/ Unwrap(last.response.errors) = << >>
              /\ last.response.data # None
              /\ last.result.data = last.response.data
        /\ (last.response.data # None
              /\ (last.response.errors = None \/ Unwrap(last.response.errors) = << >>)) =>
              last.result.tag = "Ok"

(* A response with two different errors and with data has been taken for   *)
(* its first error                                                         *)
C29_Witness ==
    /\ last.kind = "check_graphql_errors"
    /\ last.response.data # None
    /\ last.response.errors # None /\ Len(Unwrap(last.response.errors)) = 2
    /\ Unwrap(last.response.errors)[1] # Unwrap(last.response.errors)[2]
    /\ last.result.tag = "Err"
    /\ last.result.error.message = Unwrap(last.response.errors)[1].message

(* C30: update_password returns success only if the directory accepted     *)
(* the finish request of the registration: when the directory answers it   *)
(* with an error status, update_password returns an error, the apply       *)
(* fails and the status is not patched.                                    *)
C30_RejectedFinishFailsTheApply ==
    (last.kind = "ServiceUser" /\ last.op = "apply"
        /\ last.fault = [at |-> "finish", how |-> "rejected", k |-> 0]) =>
        /\ last.res = "err"
        /\ ~last.patched
        /\ ~Contains(Ops(last), "patch_status")

(* How often the last call issued the request `op` for the group `g` *)
Times(l, op, g) == Cardinality({i \in Places(l, op) : l.reqs[i].arg = g})

(* C31: within one call of update_user_groups, add_user_to_group and       *)
(* remove_user_from_group are each issued at most once per group id,       *)
(* whatever the list of names, a list that names a group twice included.   *)
C31_EachMembershipCallOncePerGroup ==
    last.kind = "update_user_groups" =>
        \A g \in DOMAIN groups :
            /\ Times(last, "add_user_to_group", g) <= 1
            /\ Times(last, "remove_user_from_group", g) <= 1

(* The same of the removals alone: what holds of the code as it is *)
C31_EachRemovalOncePerGroup ==
    last.kind = "update_user_groups" =>
        \A g \in DOMAIN groups : Times(last, "remove_user_from_group", g) <= 1

(* What cluster and directory hold for the ServiceUser `key`: the object,  *)
(* its Secret and its directory user, if any                               *)
Held(key, sus, ss, us) ==
    <<sus[key],
      IF SecretKey(key) \in DOMAIN ss THEN Some(ss[SecretKey(key)]) ELSE None,
      IF Login(key) \in DOMAIN us THEN Some(us[Login(key)]) ELSE None>>

(* C32: a dispatch for one ServiceUser never creates, modifies or deletes  *)
(* the directory user or the Secret of another: different (namespace,      *)
(* name) pairs have different logins "<name>.<namespace>" and different    *)
(* (namespace, secret name) pairs, and what is held for the others is      *)
(* after the dispatch what it was before, in whatever order the applies    *)
(* and cleanups of the objects take their turns.                           *)
C32_DispatchesKeepToTheirOwnObject ==
    [][\A key \in SideBySideKeys :
          Dispatched("ServiceUser", key) =>
              \A other \in SideBySideKeys \ {key} :
                  /\ Login(other) # Login(key)
                  /\ SecretKey(other) # SecretKey(key)
                  /\ Held(other, service_users', secrets', users')
                        = Held(other, service_users, secrets, users)
      ]_vars

(* One ServiceUser has been cleaned up and is gone with its Secret and its *)
(* directory user, while those of the two others are in place              *)
C32_Witness ==
    \E key \in SideBySideKeys :
        /\ CleanedUp("ServiceUser", key)
        /\ Held(key, service_users, secrets, users) = <<NoServiceUser, None, None>>
        /\ \A other \in SideBySideKeys \ {key} :
              /\ service_users[other].secret_created # None
              /\ SecretKey(other) \in DOMAIN secrets /\ Owns(secrets[SecretKey(other)], other)
              /\ Login(other) \in DOMAIN users
              /\ users[Login(other)].password = Some(PasswordOf(secrets[SecretKey(other)]))

(* C33: a directory group that was there before the first apply of the     *)
(* Group object named after it is still there, under its name, whatever    *)
(* becomes of the object: Group cleanup deletes only groups a Group apply  *)
(* created.  (The groups of the initial directory precede every apply.)    *)
C33_GroupThatWasThereBeforeStays ==
    \A id \in DOMAIN BuiltinGroups : id \in DOMAIN groups /\ groups[id] = BuiltinGroups[id]

(* The step is a call of `handler` on the ServiceUser `key` *)
HandlerCalled(key, handler) ==
    last'.kind = "ServiceUser handler" /\ last'.key = key /\ last'.op = handler

(* The requests that change what the directory holds *)
DirectoryMutations ==
    {"create_user", "delete_user", "create_group", "delete_group",
     "add_user_to_group", "remove_user_from_group", "register_finish"}

(* C34: a ServiceUser cleanup leaves the Secrets, the status of every      *)
(* ServiceUser, the directory's groups and every other user with its       *)
(* memberships as they were and adds nothing to the directory: the one     *)
(* change it asks the directory for is delete_user, and the one user that  *)
(* can go is its own login.  A ServiceUser apply deletes no directory user *)
(* and no directory group.                                                 *)
C34_CleanupOnlyDeletesItsUserApplyDeletesNothing ==
    [][\A key \in HandlerKeys :
          /\ HandlerCalled(key, "cleanup") =>
                /\ secrets' = secrets
                /\ service_users' = service_users
                /\ groups' = groups /\ nextGid' = nextGid
                /\ \A u \in DOMAIN users' : u \in DOMAIN users /\ users'[u] = users[u]
                /\ DOMAIN users \ DOMAIN users' \subseteq {Login(key)}
                /\ Range(Ops(last')) \cap DirectoryMutations \subseteq {"delete_user"}
          /\ HandlerCalled(key, "reconcile") =>
                /\ DOMAIN users \subseteq DOMAIN users'
                /\ groups' = groups
                /\ Range(Ops(last')) \cap {"delete_user", "delete_group"} = {}
      ]_vars

(* A cleanup has deleted its directory user; the object's Secret and its   *)
(* status are in place, and so is another user, a member of a group        *)
C34_Witness ==
    \E key \in HandlerKeys :
        /\ last.kind = "ServiceUser handler" /\ last.key = key
        /\ last.op = "cleanup" /\ last.res = "ok"
        /\ Contains(last.events, "UserDeleted")
        /\ Login(key) \notin DOMAIN users
        /\ SecretKey(key) \in DOMAIN secrets
        /\ service_users[key].secret_created # None
        /\ \E other \in HandlerKeys \ {key} :
              /\ Login(other) \in DOMAIN users
              /\ users[Login(other)].groups # {}

====
